---- MODULE Spec2Model ----
(***************************************************************************)
(* Honeybee "IES Luminaire" component (src/src/Honeybee_IES Luminaire.py). *)
(*                                                                         *)
(* One run of the component body: makeLum parses the token stream of the   *)
(* IES file into a Luminaire, str(luminaire) builds the summary, the       *)
(* inputs are validated, createLumPoly / createLumWeb / createLumAxes      *)
(* build the templates and the placement loop instances them.  The run is  *)
(* one with _iesFilePath, _luminaireID and _luminaireZone given, the       *)
(* default _radDir_ and no extendLumAxesToPt_; with _writeRad set the run  *)
(* goes on to write the luminaire's Radiance files through ies2rad and     *)
(* xform.                                                                  *)
(*                                                                         *)
(* The host interpreter is IronPython 2.7 (from __future__ import          *)
(* division): map and range return lists, / is true division, and the     *)
(* summary's format fields with the index -1 (arrVertAng[-1]) read the     *)
(* last element of the list.                                               *)
(*                                                                         *)
(* Numbers.  float(token) is held in fixed point, in thousandths: the      *)
(* token 90 reads as 90000, the token 0.01 as 10.  Products with the unit  *)
(* factor 0.304 (held as 304) are therefore in millionths.  Python indices *)
(* are 0-based; At0 and PySlice do the translation to TLA+ sequences.      *)
(***************************************************************************)
EXTENDS Integers, Sequences, FiniteSets, TLC

VARIABLES
    pc,                 \* position in the component body
    err,                \* the exception that ended the run, "none" otherwise
    iesFile,            \* the token stream of the file (after split)
    luminaire,          \* the Luminaire object, NoLum before makeLum returns
    luminaireDetails,   \* result of str(luminaire): the shape it reported
    lightLossFactor,    \* _lightLossFactor_
    candelaMultiplier,  \* _candelaMultiplier_
    luminairePolygon,   \* result of createLumPoly
    horz,               \* createLumWeb's local horz
    candelas,           \* createLumWeb's local candelas
    counter,            \* createLumWeb's local counter
    luminaireWeb,       \* result of createLumWeb
    luminaireAxes,      \* result of createLumAxes
    luminaireZone,      \* _luminaireZone: the arrays of placements
    drawLuminairePoly,  \* _drawLuminairePoly_
    drawLuminaireWeb,   \* _drawLuminaireWeb_
    drawLuminaireAxes,  \* _drawLuminaireAxes_
    placed,             \* placements the loop has processed
    luminaireList,      \* the description of each placement
    luminaire3dWeb,     \* the geometry emitted so far
    radBin,             \* os.listdir(radBin): the files of the Radiance folder
    errText,            \* the message of the exception that ended the run
    writeRad,           \* _writeRad
    customLamp,         \* customLamp_
    disk,               \* the files written, the batch runs started and ended, in order
    radfile,            \* the lines of the array .rad file
    radpathfull,        \* the .rad path of the shared batch run
    radPathVal,         \* the .rad path the xform lines of the zone refer to
    radIdx,             \* idx of the _writeRad loop: the zone it is at
    radIndex,           \* index of the _writeRad loop: the placement it is at
    radFilePath,        \* the output radFilePath
    inputs              \* the two factors as the caller gave them

vars == <<pc, err, iesFile, luminaire, luminaireDetails, lightLossFactor,
          candelaMultiplier, luminairePolygon, horz, candelas, counter,
          luminaireWeb, luminaireAxes, luminaireZone, drawLuminairePoly,
          drawLuminaireWeb, drawLuminaireAxes, placed, luminaireList, luminaire3dWeb,
          radBin, errText, writeRad, customLamp, disk, radfile, radpathfull,
          radPathVal, radIdx, radIndex, radFilePath, inputs>>

-----------------------------------------------------------------------------
(* Bounds of the model                                                     *)

MaxHeader == 1      \* words in front of the TILT directive
MaxTilt == 2        \* declared tilt-angle count of a TILT=INCLUDE block
MaxVert == 2        \* declared vertical-angle count
MaxHorz == 2        \* declared horizontal-angle count (parse inputs)
MaxTable == 3       \* length of the horizontal-angle tables (web inputs)
MaxPoints == 2      \* placements in one array of the zone

-----------------------------------------------------------------------------
(* Tokens and Python's sequence operations                                 *)

IntTok(v) == [kind |-> "int", val |-> v, txt |-> ""]
DecTok(m) == [kind |-> "dec", val |-> m, txt |-> ""]
WordTok(w) == [kind |-> "word", val |-> 0, txt |-> w]
FillTok == [kind |-> "fill", val |-> 0, txt |-> ""]

Min(a, b) == IF a < b THEN a ELSE b
Max(a, b) == IF a > b THEN a ELSE b
Abs(x) == IF x < 0 THEN -x ELSE x

\* s[i] of Python for an index the caller knows to be in range
At0(s, i) == IF i < 0 THEN s[Len(s) + i + 1] ELSE s[i + 1]

InRange0(s, i) == (i < Len(s)) /\ (i >= -Len(s))

PyNorm(i, n) == IF i < 0 THEN Max(i + n, 0) ELSE Min(i, n)

\* s[a:b] of Python
PySlice(s, a, b) ==
    LET lo == PyNorm(a, Len(s))
        hi == PyNorm(b, Len(s))
    IN  IF hi <= lo THEN <<>> ELSE [k \in 1..(hi - lo) |-> s[lo + k]]

\* s[a:] of Python
PyTail(s, a) == PySlice(s, a, Len(s))

Reversed(s) == [k \in 1..Len(s) |-> s[Len(s) + 1 - k]]

\* float(tok): fixed point, thousandths
CanFloat(tok) == tok.kind \in {"int", "dec"}
ToFloat(tok) == IF tok.kind = "int" THEN tok.val * 1000 ELSE tok.val

\* int(tok): only an integer literal converts
CanInt(tok) == tok.kind = "int"
ToInt(tok) == tok.val

AllFloat(s) == \A k \in 1..Len(s) : CanFloat(s[k])
MapFloat(s) == [k \in 1..Len(s) |-> ToFloat(s[k])]

\* the exception raised by float(s[i]) / int(s[i]), "none" when it succeeds
FloatErr(s, i) ==
    IF ~InRange0(s, i) THEN "IndexError"
    ELSE IF ~CanFloat(At0(s, i)) THEN "ValueError" ELSE "none"

IntErr(s, i) ==
    IF ~InRange0(s, i) THEN "IndexError"
    ELSE IF ~CanInt(At0(s, i)) THEN "ValueError" ELSE "none"

IsWord(tok, w) == tok.kind = "word" /\ tok.txt = w

\* w in s
Contains(s, w) == \E i \in 1..Len(s) : IsWord(s[i], w)

\* s.index(w), 0-based
IndexOf(s, w) ==
    (CHOOSE i \in 1..Len(s) :
        IsWord(s[i], w) /\ \A j \in 1..(i - 1) : ~IsWord(s[j], w)) - 1

\* the first exception in a sequence of checks, "none" when there is none
FirstErr(es) ==
    IF \A k \in 1..Len(es) : es[k] = "none" THEN "none"
    ELSE es[CHOOSE k \in 1..Len(es) :
                es[k] # "none" /\ \A j \in 1..(k - 1) : es[j] = "none"]

-----------------------------------------------------------------------------
(* The required executables and the messages of the exceptions            *)

\* reqExe = ['ies2rad.exe','xform.exe']
reqExe == <<"ies2rad.exe", "xform.exe">>

NoText == [text |-> "", arg |-> "", key |-> 0]

\* the executables of reqExe that radBin lacks, in the order of the list
MissingExe(files) == SelectSeq(reqExe, LAMBDA filename : filename \notin files)

\* "{}, a required file, was not found in {}".format(filename,radBin)
ReqExeText(files) ==
    [text |-> "a required file, was not found in radBin", arg |-> MissingExe(files)[1],
     key |-> 0]

-----------------------------------------------------------------------------
(* makeLum                                                                 *)

NoLum == [none |-> TRUE]
NoTilt == [present |-> FALSE, lmpLumGeo |-> 0, tiltAng |-> 0,
           tiltAngArr |-> <<>>, mulFact |-> <<>>]

Fail(e) == [ok |-> FALSE, err |-> e]

\* tiltInfo["mulFact"]: the slice of the multiplying factors
MulFactSlice(file, tiltStart, tiltAng) ==
    PySlice(file, tiltStart + 3 + tiltAng + 1, (tiltStart + 3 + 2 * tiltAng) + 1)

\* an else branch that takes the file name of a TILT=<file> directive as the
\* start of the data: the slip that lets an unsupported directive through
NoDirectiveAsFile(file) ==
    IF Contains(file, "TILT=lamp.tlt")
    THEN [ok |-> TRUE, tiltInfo |-> NoTilt, fileStart |-> IndexOf(file, "TILT=lamp.tlt")]
    ELSE Fail("UnboundLocalError")

\* neither branch of the TILT test runs: tiltInfo is not bound when line 281
\* reads it
NoDirective(file) == Fail("UnboundLocalError")

\* the TILT test: tiltInfo and fileStart
TiltBlock(file) ==
    IF Contains(file, "TILT=INCLUDE")
    THEN LET tiltStart == IndexOf(file, "TILT=INCLUDE")
             e == FirstErr(<<FloatErr(file, tiltStart + 1),
                             IntErr(file, tiltStart + 2)>>)
         IN  IF e # "none" THEN Fail(e)
             ELSE LET tiltAng == ToInt(At0(file, tiltStart + 2))
                      angs == PySlice(file, tiltStart + 3, tiltStart + 3 + tiltAng)
                      muls == MulFactSlice(file, tiltStart, tiltAng)
                  IN  IF ~AllFloat(angs) \/ ~AllFloat(muls)
                      THEN Fail("ValueError")
                      ELSE [ok |-> TRUE,
                            tiltInfo |->
                                [present |-> TRUE,
                                 lmpLumGeo |-> ToFloat(At0(file, tiltStart + 1)),
                                 tiltAng |-> tiltAng,
                                 tiltAngArr |-> MapFloat(angs),
                                 mulFact |-> MapFloat(muls)],
                            fileStart |-> tiltStart + 2 + 2 * Len(angs)]
    ELSE IF Contains(file, "TILT=NONE")
    THEN [ok |-> TRUE, tiltInfo |-> NoTilt, fileStart |-> IndexOf(file, "TILT=NONE")]
    ELSE NoDirective(file)

\* position in iesData of the candela value of (horizontalAngles, verticalAngles)
currHorzPosn(horizontalAngles, verticalAngles, numVertAng, horzAngPos) ==
    horizontalAngles * numVertAng + horzAngPos + verticalAngles

\* the candela loop: the first exception it raises
CandelaErr(iesData, numVertAng, numHorzAng, horzAngPos) ==
    LET cells == {<<h, v>> : h \in 0..(numHorzAng - 1), v \in 0..(numVertAng - 1)}
        bad == {c \in cells :
                   FloatErr(iesData, currHorzPosn(c[1], c[2], numVertAng, horzAngPos)) # "none"}
        first == CHOOSE c \in bad :
                   \A d \in bad : (c[1] < d[1]) \/ (c[1] = d[1] /\ c[2] <= d[2])
    IN  IF bad = {} THEN "none"
        ELSE FloatErr(iesData, currHorzPosn(first[1], first[2], numVertAng, horzAngPos))

CandelaTable(iesData, numVertAng, numHorzAng, horzAngPos) ==
    [h \in 1..Max(numHorzAng, 0) |->
        [v \in 1..Max(numVertAng, 0) |->
            ToFloat(At0(iesData, currHorzPosn(h - 1, v - 1, numVertAng, horzAngPos)))]]

\* the numeric part of makeLum, from iesData = iesFile[fileStart+1:]
ReadPhotometry(iesData, tiltInfo) ==
    LET e1 == FirstErr(<<IntErr(iesData, 0), FloatErr(iesData, 1), FloatErr(iesData, 2),
                         IntErr(iesData, 3), IntErr(iesData, 4), IntErr(iesData, 5),
                         IntErr(iesData, 6)>>)
        dims == PySlice(iesData, 7, 13)
    IN  IF e1 # "none" THEN Fail(e1)
        ELSE IF ~AllFloat(dims) \/ Len(dims) # 6 THEN Fail("ValueError")
        ELSE LET numVertAng == ToInt(At0(iesData, 3))
                 numHorzAng == ToInt(At0(iesData, 4))
                 vertToks == PySlice(iesData, 13, 13 + numVertAng)
                 vertAngPos == 13 + numVertAng
                 horzToks == PySlice(iesData, vertAngPos, vertAngPos + numHorzAng)
                 horzAngPos == vertAngPos + numHorzAng
                 e2 == CandelaErr(iesData, numVertAng, numHorzAng, horzAngPos)
             IN  IF ~AllFloat(vertToks) \/ ~AllFloat(horzToks) THEN Fail("ValueError")
                 ELSE IF e2 # "none" THEN Fail(e2)
                 ELSE [ok |-> TRUE,
                       lum |-> [tiltInfo |-> tiltInfo,
                                numLamps |-> ToInt(At0(iesData, 0)),
                                lumLamp |-> ToFloat(At0(iesData, 1)),
                                candMul |-> ToFloat(At0(iesData, 2)),
                                numVertAng |-> numVertAng,
                                numHorzAng |-> numHorzAng,
                                photType |-> ToInt(At0(iesData, 5)),
                                unitType |-> ToInt(At0(iesData, 6)),
                                width |-> ToFloat(dims[1]),
                                length |-> ToFloat(dims[2]),
                                height |-> ToFloat(dims[3]),
                                balFact |-> ToFloat(dims[4]),
                                future |-> ToFloat(dims[5]),
                                inpWatts |-> ToFloat(dims[6]),
                                arrVertAng |-> MapFloat(vertToks),
                                arrHorzAng |-> MapFloat(horzToks),
                                candelaValues |->
                                    CandelaTable(iesData, numVertAng, numHorzAng, horzAngPos)]]

makeLum(file) ==
    LET t == TiltBlock(file)
    IN  IF ~t.ok THEN t
        ELSE ReadPhotometry(PyTail(file, t.fileStart + 1), t.tiltInfo)

-----------------------------------------------------------------------------
(* Input files                                                             *)

\* filler tokens carry their own 0-based position: token i reads as 100+i
Recode(s) == [i \in 1..Len(s) |-> IF s[i].kind = "fill" THEN IntTok(100 + i - 1) ELSE s[i]]

Fill(n) == [k \in 1..n |-> FillTok]

TiltTokens(tilt, n) ==
    IF tilt = "INCLUDE" THEN <<WordTok("TILT=INCLUDE"), IntTok(1), IntTok(n)>> \o Fill(2 * n)
    ELSE IF tilt = "NONE" THEN <<WordTok("TILT=NONE")>>
    ELSE <<WordTok("TILT=lamp.tlt")>>

\* a complete LM-63 token stream
IesStream(hdr, tilt, n, V, phot, unit, w, l, h, horzToks) ==
    Recode([k \in 1..hdr |-> WordTok("IESNA:LM-63-2002")]
           \o TiltTokens(tilt, n)
           \o <<FillTok, FillTok, FillTok, IntTok(V), IntTok(Len(horzToks)),
                IntTok(phot), IntTok(unit), DecTok(w), DecTok(l), DecTok(h),
                FillTok, FillTok, FillTok>>
           \o Fill(V)
           \o horzToks
           \o Fill(V * Len(horzToks)))

\* inputs that exercise the parser: every prefix of a complete stream
ParseStreams ==
    UNION {
        LET full == IesStream(hdr, tc[1], tc[2], V, 1, 2, 1000, 1000, 0, Fill(H))
        IN  {SubSeq(full, 1, keep) : keep \in 0..Len(full)}
        : hdr \in 0..MaxHeader,
          tc \in ({<<"NONE", 0>>, <<"OTHER", 0>>} \cup {<<"INCLUDE", n>> : n \in 0..MaxTilt}),
          V \in 0..MaxVert, H \in 0..MaxHorz }

\* a declared vertical count below -13: 13+numVertAng is negative and the
\* slices of iesData count from its end
WrapCount == -14

\* a stream that declares the counts V and H, one of them below zero, and
\* carries the tokens of the counts that are not
CountStream(V, H) ==
    Recode(<<WordTok("TILT=NONE"), FillTok, FillTok, FillTok, IntTok(V), IntTok(H),
             IntTok(1), IntTok(2), DecTok(1000), DecTok(1000), DecTok(0),
             FillTok, FillTok, FillTok>>
           \o Fill(Max(V, 0)) \o Fill(Max(H, 0)) \o Fill(Max(V, 0) * Max(H, 0)))

\* inputs that exercise the declared counts, the tilt count among them: int()
\* reads a signed literal
SignedStreams ==
    ({CountStream(V, H) : V \in -1..MaxVert, H \in -1..MaxHorz}
     \cup {CountStream(WrapCount, H) : H \in 0..MaxHorz}
     \cup {IesStream(hdr, "INCLUDE", -1, V, 1, 2, 1000, 1000, 0, Fill(H)) :
              hdr \in 0..MaxHeader, V \in 0..MaxVert, H \in 0..MaxHorz})
    \ ParseStreams

-----------------------------------------------------------------------------
(* Luminaire.__str__                                                       *)

\* round(x, 2) == 0 for x in thousandths: |x| < 0.005
Round2IsZero(x) == (-5 < x) /\ (x < 5)

\* int(x) == 0 for x in thousandths: |x| < 1
IntIsZero(x) == (-1000 < x) /\ (x < 1000)

\* the branch of the luminous-dimension test that __str__ takes
luminousDim(width, length, height) ==
    IF width > 0 /\ length > 0 /\ Round2IsZero(height) THEN "rectangular"
    ELSE IF width < 0 /\ Round2IsZero(length) /\ Round2IsZero(height) THEN "circular"
    ELSE IF width > 0 /\ length > 0 /\ height > 0 THEN "rectangular with luminous sides"
    ELSE IF IntIsZero(width) /\ IntIsZero(length) /\ IntIsZero(height) THEN "point source"
    ELSE "unsupported"

\* the width __str__ leaves in the object: -0.01 for a point source
StrWidth(lum) ==
    IF luminousDim(lum.width, lum.length, lum.height) = "point source"
    THEN -10 ELSE lum.width

\* the exception __str__ raises, "none" when it returns the summary
StrErr(lum) ==
    IF lum.photType \notin {1, 2, 3} THEN "KeyError"
    ELSE IF lum.unitType \notin {1, 2} THEN "KeyError"
    ELSE IF luminousDim(lum.width, lum.length, lum.height) = "unsupported" THEN "Exception"
    ELSE IF Len(lum.arrVertAng) = 0 \/ Len(lum.arrHorzAng) = 0 THEN "IndexError"
    ELSE "none"

\* the message of the exception of __str__: a KeyError carries the key
StrErrText(lum) ==
    IF lum.photType \notin {1, 2, 3} THEN [text |-> "KeyError", arg |-> "", key |-> lum.photType]
    ELSE IF lum.unitType \notin {1, 2} THEN [text |-> "KeyError", arg |-> "", key |-> lum.unitType]
    ELSE IF luminousDim(lum.width, lum.length, lum.height) = "unsupported"
    THEN [text |-> "This format, which is neither rectangular nor circular, is not supported currently", arg |-> "", key |-> 0]
    ELSE NoText

\* whether __str__ gets as far as the luminous-dimension test
StrReachesDims(lum) == lum.photType \in {1, 2, 3} /\ lum.unitType \in {1, 2}

-----------------------------------------------------------------------------
(* Validation of the component's inputs                                    *)

Absent == [given |-> FALSE, val |-> 0]
Given(v) == [given |-> TRUE, val |-> v]

\* Python truth value of an optional number
Truthy(x) == x.given /\ x.val # 0

\* the exception of the checks between str(luminaire) and createLumPoly
InputErr(lum, llf, cm) ==
    IF lum.photType # 1 THEN "AssertionError"
    ELSE IF Truthy(llf) /\ ~(0 <= llf.val /\ llf.val <= 1000) THEN "AssertionError"
    ELSE IF Truthy(cm) /\ ~(cm.val > 0) THEN "AssertionError"
    ELSE "none"

\* {1:'C',2:'B',3:'A'}[luminaire.photType]
photometryType(photType) ==
    IF photType = 1 THEN "C" ELSE IF photType = 2 THEN "B" ELSE "A"

\* the message of the failed assertion
InputErrText(lum, llf, cm) ==
    IF lum.photType # 1
    THEN [text |-> "The specified IES file in _iesFilePath is of Type {} photometry",
          arg |-> photometryType(lum.photType), key |-> 0]
    ELSE IF Truthy(llf) /\ ~(0 <= llf.val /\ llf.val <= 1000)
    THEN [text |-> "The value of Light Loss Factor should be between 0.0 and 1.0",
          arg |-> "", key |-> 0]
    ELSE IF Truthy(cm) /\ ~(cm.val > 0)
    THEN [text |-> "Candela multiplier should be a number greater than 0",
          arg |-> "", key |-> 0]
    ELSE NoText

\* the value an optional factor has after the checks
Defaulted(x) == IF Truthy(x) THEN x ELSE Given(1000)

-----------------------------------------------------------------------------
(* createLumPoly, createLumAxes                                            *)

NoGeometry == [kind |-> "none"]

\* {1:0.304,2:1}[unitType], in thousandths
fileUnit(unitType) == IF unitType = 1 THEN 304 ELSE 1000

\* round(x, 2) for x in millionths: == 0, > 0
Round2IsZeroM(x) == (-5000 < x) /\ (x < 5000)
Round2IsPosM(x) == x >= 5000

\* lengths of the result are in millionths of a metre
createLumPoly(lum) ==
    LET width == fileUnit(lum.unitType) * lum.width
        length == fileUnit(lum.unitType) * lum.length
        height == fileUnit(lum.unitType) * lum.height
    IN  IF width > 0 /\ Round2IsZeroM(height)
        THEN [kind |-> "Rectangle3d",
              cornerA |-> <<-(length \div 2), -(width \div 2), 0>>,
              cornerB |-> <<length \div 2, width \div 2, 0>>]
        ELSE IF width < 0
        THEN [kind |-> "Circle", radius |-> Abs(-(width \div 2))]
        ELSE IF Round2IsPosM(height)
        THEN [kind |-> "Box",
              xInterval |-> <<-(length \div 2), length \div 2>>,
              yInterval |-> <<-(width \div 2), width \div 2>>,
              zInterval |-> <<-(height \div 2), height \div 2>>]
        ELSE [kind |-> "UnboundLocalError"]

\* end points of the two axes, in ten-millionths of a metre
createLumAxes(lum) ==
    LET width == fileUnit(lum.unitType) * lum.width
        length0 == fileUnit(lum.unitType) * lum.length
        length == IF length0 = 0 /\ width < 0 THEN Abs(width) ELSE length0
    IN  << [kind |-> "Line", from |-> <<0, 0, 0>>, to |-> <<6 * length, 0, 0>>],
           [kind |-> "Line", from |-> <<0, 0, 0>>, to |-> <<0, 0, -10 * length>>] >>

-----------------------------------------------------------------------------
(* createLumWeb                                                            *)

FullCircle == 360       \* the 360 of the loop test and of maxlimit
MaxPasses == 4          \* "if counter>4"
LastStep == 370         \* range(0,370,10)
Step == 10

\* the range with its end left out, range(0,360,10): the slip that loses the
\* closing angle 360
SingleAngleRangeOpen == [k \in 1..((FullCircle + Step - 1) \div Step) |-> (k - 1) * Step * 1000]

\* range(0,370,10), in thousandths
SingleAngleRange == [k \in 1..((LastStep + Step - 1) \div Step) |-> (k - 1) * Step * 1000]

\* candelas*len(horz)
Repeat(s, n) == [k \in 1..(Len(s) * n) |-> s[((k - 1) % Len(s)) + 1]]

\* the test of the while loop; horz is not empty
MirrorTest(hz) == (hz[1] = 0) /\ (hz[Len(hz)] < FullCircle * 1000)

\* intervals = [horz[-1]-horz[-idx-2] for idx in range(len(horz)-1)]
Intervals(hz) == [k \in 1..(Len(hz) - 1) |-> At0(hz, -1) - At0(hz, -(k - 1) - 2)]

\* initnew = [initangles[-1]+intervals[idx-1] for idx in range(1,len(initangles))]
InitNew(hz) == [k \in 1..(Len(hz) - 1) |-> At0(hz, -1) + Intervals(hz)[k]]

\* horz after horz.extend(initnew)
MirrorAngles(hz) == hz \o InitNew(hz)

\* the reversed rows appended whole, without the [1:]: the slip that repeats
\* the row of the pivot
MirrorCandelasKeepingPivot(cd) == cd \o Reversed(cd)

\* candelas after candelas.extend(list(reversed(candelas))[1:])
MirrorCandelas(cd) == cd \o PyTail(Reversed(cd), 1)

\* the limit taken one too high, "if counter>5"
TooManyPassesLate(c) == c > MaxPasses + 1

\* the message of that assertion
OrderText ==
    [text |-> "The horizontal angles in the IES file aren't in order", arg |-> "", key |-> 0]

\* "if counter>4: assert False"
TooManyPasses(c) == c > MaxPasses

-----------------------------------------------------------------------------
(* Python floats.  The angles are IEEE 754 doubles.  Where the outcome of a *)
(* comparison depends on the rounding of the arithmetic, the double is      *)
(* computed exactly: a magnitude is a sequence of Limbs digits of LimbBits  *)
(* bits, the lowest first, counting units of 2^-DoubleFrac, and every       *)
(* result is rounded to Mantissa significant bits, ties to the even         *)
(* neighbour.                                                               *)

Mantissa == 53          \* significant bits of a double
LimbBits == 16          \* bits of one digit
Limbs == 6              \* digits of a magnitude
DoubleFrac == 64        \* bits behind the binary point: enough for 0.001
Thousand == 1000        \* float(token) is held in thousandths

RECURSIVE TwoTo(_)
TwoTo(k) == IF k = 0 THEN 1 ELSE 2 * TwoTo(k - 1)

Base == TwoTo(LimbBits)

Clamp(n) == IF n < 0 THEN 0 ELSE IF n > LimbBits THEN LimbBits ELSE n

\* the magnitude of a natural number below 2^31
NatMag(n) ==
    [i \in 1..Limbs |->
        IF i = DoubleFrac \div LimbBits + 1 THEN n % Base
        ELSE IF i = DoubleFrac \div LimbBits + 2 THEN n \div Base
        ELSE 0]

\* the number of bits of a digit
BitLen(x) == IF x = 0 THEN 0 ELSE CHOOSE n \in 1..LimbBits : TwoTo(n - 1) <= x /\ x < TwoTo(n)

\* position of the highest bit set, counting from 1; 0 for zero
TopBit(a) ==
    IF \A i \in 1..Limbs : a[i] = 0 THEN 0
    ELSE LET k == CHOOSE i \in 1..Limbs : a[i] # 0 /\ \A j \in (i + 1)..Limbs : a[j] = 0
         IN  (k - 1) * LimbBits + BitLen(a[k])

\* bit p of a magnitude
Bit(a, p) == (a[(p - 1) \div LimbBits + 1] \div TwoTo((p - 1) % LimbBits)) % 2

\* the digits of a + b from digit i upwards, with the carry c into digit i
RECURSIVE AddFrom(_, _, _, _)
AddFrom(a, b, i, c) ==
    IF i > Limbs THEN <<>>
    ELSE <<((a[i] + b[i] + c) % Base)>> \o AddFrom(a, b, i + 1, (a[i] + b[i] + c) \div Base)

MagAdd(a, b) == AddFrom(a, b, 1, 0)

\* the digits of a - b from digit i upwards, with the borrow c from digit i
RECURSIVE SubFrom(_, _, _, _)
SubFrom(a, b, i, c) ==
    IF i > Limbs THEN <<>>
    ELSE <<(a[i] - b[i] - c + Base) % Base>>
            \o SubFrom(a, b, i + 1, IF a[i] - b[i] - c < 0 THEN 1 ELSE 0)

\* a - b for a >= b
MagSub(a, b) == SubFrom(a, b, 1, 0)

MagLess(a, b) ==
    \E i \in 1..Limbs : a[i] < b[i] /\ \A j \in (i + 1)..Limbs : a[j] = b[j]

\* long division by a thousand: the quotient digits from digit i downwards,
\* with r left over from the digits above
RECURSIVE DivFrom(_, _, _)
DivFrom(a, i, r) ==
    IF i = 0 THEN <<>>
    ELSE DivFrom(a, i - 1, (r * Base + a[i]) % Thousand) \o <<(r * Base + a[i]) \div Thousand>>

\* what the long division leaves of the digits from i upwards
RECURSIVE Rem(_, _)
Rem(a, i) == IF i > Limbs THEN 0 ELSE (Rem(a, i + 1) * Base + a[i]) % Thousand

\* a without its bits up to bit s
Truncated(a, s) ==
    [i \in 1..Limbs |-> a[i] - (a[i] % TwoTo(Clamp(s - (i - 1) * LimbBits)))]

\* bit k alone
UnitBit(k) ==
    [i \in 1..Limbs |-> IF i = (k - 1) \div LimbBits + 1 THEN TwoTo((k - 1) % LimbBits) ELSE 0]

\* a rounded to a multiple of bit s + 1, to the nearest, ties to even; sticky
\* says that the exact value has digits below the lowest bit of a
RoundAt(a, s, sticky) ==
    IF s <= 0 THEN a
    ELSE IF Bit(a, s) = 1 /\ (sticky \/ Bit(a, s + 1) = 1 \/ Truncated(a, s - 1) # a)
    THEN MagAdd(Truncated(a, s), UnitBit(s + 1))
    ELSE Truncated(a, s)

\* a rounded to Mantissa significant bits
RoundMag(a, sticky) == RoundAt(a, TopBit(a) - Mantissa, sticky)

\* float(token) for a token of m thousandths: the double nearest to m/1000
Double(m) ==
    [neg |-> m < 0,
     mag |-> RoundMag(DivFrom(NatMag(Abs(m)), Limbs, 0), Rem(NatMag(Abs(m)), 1) # 0)]

\* x + y in doubles
DoubleAdd(x, y) ==
    IF x.neg = y.neg THEN [neg |-> x.neg, mag |-> RoundMag(MagAdd(x.mag, y.mag), FALSE)]
    ELSE IF MagLess(x.mag, y.mag)
    THEN [neg |-> y.neg, mag |-> RoundMag(MagSub(y.mag, x.mag), FALSE)]
    ELSE [neg |-> x.neg, mag |-> RoundMag(MagSub(x.mag, y.mag), FALSE)]

\* x - y in doubles
DoubleSub(x, y) == DoubleAdd(x, [neg |-> ~y.neg, mag |-> y.mag])

\* x <= y for doubles
DoubleLe(x, y) ==
    IF TopBit(x.mag) = 0 /\ TopBit(y.mag) = 0 THEN TRUE
    ELSE IF x.neg # y.neg THEN x.neg
    ELSE IF x.neg THEN ~MagLess(x.mag, y.mag)
    ELSE ~MagLess(y.mag, x.mag)

DoubleEq(x, y) == DoubleLe(x, y) /\ DoubleLe(y, x)

-----------------------------------------------------------------------------

Keep(s, Test(_)) == SelectSeq(s, Test)

\* horz[0]-(horz[idx]-horz[0]) as the doubles of the code give it
ZeroMirror(a, x) == DoubleSub(Double(a), DoubleSub(Double(x), Double(a)))

\* horz[-1]+(horz[-1]-horz[-1-idx]) as the doubles of the code give it
MaxMirror(z, y) == DoubleAdd(Double(z), DoubleSub(Double(z), Double(y)))

\* "if horz[0]-(horz[idx]-horz[0])>=0", for the pair of the first angle and
\* the angle mirrored about it
GeZero(p) == DoubleLe(Double(0), ZeroMirror(p.about, p.angle))

\* "if horz[-1]+(horz[-1]-horz[-1-idx])<=360", for the pair of the last angle
\* and the angle mirrored about it
LeFull(p) == DoubleLe(MaxMirror(p.about, p.angle), Double(FullCircle * Thousand))

\* the mirrored angle of a pair.  The angles of the model are thousandths:
\* the double of the code is this value or a neighbouring double of it
\* (ZeroMirror, MaxMirror)
Mirrored(p) == p.about + (p.about - p.angle)

\* zerolimit of the 90-270 branch
ZeroLimit(hz) ==
    LET kept == Keep([k \in 1..(Len(hz) - 1) |-> [about |-> hz[1], angle |-> hz[k + 1]]], GeZero)
    IN  Reversed([k \in 1..Len(kept) |-> Mirrored(kept[k])])

\* maxlimit of the 90-270 branch
MaxLimit(hz) ==
    LET kept == Keep([k \in 1..(Len(hz) - 1) |->
                        [about |-> At0(hz, -1), angle |-> At0(hz, -1 - k)]], LeFull)
    IN  [k \in 1..Len(kept) |-> Mirrored(kept[k])]

\* horz and candelas after "if horz[0]>0:"
PartialAngles(hz) ==
    IF hz[1] > 0 THEN ZeroLimit(hz) \o hz \o MaxLimit(hz) ELSE hz

PartialCandelas(hz, cd) ==
    IF hz[1] > 0
    THEN Reversed(PySlice(cd, 1, Len(ZeroLimit(hz)) + 1))
         \o cd
         \o Reversed(PySlice(cd, -Len(MaxLimit(hz)) - 1, -1))
    ELSE cd

RECURSIVE SeqMax(_)
SeqMax(s) == IF Len(s) = 1 THEN s[1] ELSE Max(s[1], SeqMax(Tail(s)))

\* math.radians(x): the angle x degrees, kept by its degrees
Radians(x) == [degrees |-> x]

\* the exception of the normalisation and projection, "none" when the web is built
ProjectErr(hz, vert, cd) ==
    IF Len(cd) = 0 \/ (\E k \in 1..Len(cd) : Len(cd[k]) = 0) THEN "ValueError"
    ELSE IF SeqMax([k \in 1..Len(cd) |-> SeqMax(cd[k])]) = 0 THEN "ZeroDivisionError"
    ELSE IF Len(vert) > 0 /\ \E i \in 1..Len(hz) :
                                (i > Len(cd)) \/ (Len(cd[i]) < Len(vert)) THEN "IndexError"
    ELSE "none"

candelamax(cd) == SeqMax([k \in 1..Len(cd) |-> SeqMax(cd[k])])

\* map(math.radians, s)
MapRadians(s) == [k \in 1..Len(s) |-> Radians(s[k])]

\* [[value/candelamax for value in cdarr] for cdarr in candelas]: a quotient
\* is kept by its value and its divisor
Normalised(cd) ==
    [i \in 1..Len(cd) |->
        [j \in 1..Len(cd[i]) |-> [value |-> cd[i][j], candelamax |-> candelamax(cd)]]]

\* the curve through the points of one horizontal angle: each point is
\* mul3d*candelas[idx1][idx2] at the angles (vertAngles, horzAngles); hz and
\* vert are in radians and cd is normalised
Curve(hz, vert, cd, mul3d, idx1) ==
    [idx2 \in 1..Len(vert) |->
        [mul3d |-> mul3d, value |-> cd[idx1][idx2].value,
         candelamax |-> cd[idx1][idx2].candelamax,
         vertAngles |-> vert[idx2], horzAngles |-> hz[idx1]]]

\* LumWeb: one edge surface per pair of adjacent curves
LumWeb(hz, vert, cd, mul3d) ==
    [idx \in 1..Max(Len(hz) - 1, 0) |->
        [kind |-> "Brep",
         curves |-> <<Curve(hz, vert, cd, mul3d, idx), Curve(hz, vert, cd, mul3d, idx + 1)>>]]

mul3d(lum) ==
    Max(Abs(fileUnit(lum.unitType) * lum.width), Abs(fileUnit(lum.unitType) * lum.length))

-----------------------------------------------------------------------------
(* transformGeometry and the placement loop                                *)

\* the stages with the tilt in front of the spin: the slip of two swapped blocks
transformGeometryTiltFirst(geometry, spin, tilt, rotate, transform, mul) ==
    [geometry |-> geometry,
     transforms |-> << [op |-> "Scale", angle |-> 0, by |-> <<mul, mul, mul>>],
                       [op |-> "Tilt", angle |-> tilt, by |-> <<0, 1, 0>>],
                       [op |-> "Spin", angle |-> spin, by |-> <<0, 0, 1>>],
                       [op |-> "Rotate", angle |-> rotate, by |-> <<0, 0, 1>>],
                       [op |-> "Translation", angle |-> 0, by |-> transform] >>]

\* a copy of the geometry with the five transforms applied to it in order
transformGeometry(geometry, spin, tilt, rotate, transform, mul) ==
    [geometry |-> geometry,
     transforms |-> << [op |-> "Scale", angle |-> 0, by |-> <<mul, mul, mul>>],
                       [op |-> "Spin", angle |-> spin, by |-> <<0, 0, 1>>],
                       [op |-> "Tilt", angle |-> tilt, by |-> <<0, 1, 0>>],
                       [op |-> "Rotate", angle |-> rotate, by |-> <<0, 0, 1>>],
                       [op |-> "Translation", angle |-> 0, by |-> transform] >>]

\* the stages applied to the object of the caller itself, as they would be
\* without the deep copy
templateInPlace(geometry, spin, tilt, rotate, transform, mul) ==
    transformGeometry(geometry, spin, tilt, rotate, transform, mul)

\* the object the caller passed, as the call leaves it: line 464 rebinds the
\* local name to a deep copy and every stage transforms that copy
templateAfter(geometry, spin, tilt, rotate, transform, mul) == geometry

\* the optional draw inputs: None, True, False or a number
FlagNone == [kind |-> "None", val |-> 0]
FlagTrue == [kind |-> "True", val |-> 1]
FlagFalse == [kind |-> "False", val |-> 0]
FlagNum(n) == [kind |-> "num", val |-> n]

\* "if flag is None: flag = True"
DefaultTrue(flag) == IF flag.kind = "None" THEN FlagTrue ELSE flag

\* Python truth value of a flag
FlagSet(flag) == flag.kind = "True" \/ (flag.kind = "num" /\ flag.val # 0)

\* "if flag is True: flag = 1 else: flag = abs(flag)"
AsScale(flag) == IF flag.kind = "True" THEN FlagNum(1) ELSE FlagNum(Abs(flag.val))

\* the three flags after the body of the loop has run once
PolyFlagAfter(flag) ==
    IF FlagSet(DefaultTrue(flag)) THEN AsScale(DefaultTrue(flag)) ELSE DefaultTrue(flag)

WebFlagAfter(flag, web) ==
    IF FlagSet(flag) /\ Len(web) > 0 THEN AsScale(flag) ELSE flag

AxesFlagAfter(flag, axes) ==
    IF FlagSet(DefaultTrue(flag)) /\ Len(axes) > 0
    THEN AsScale(DefaultTrue(flag)) ELSE DefaultTrue(flag)

\* the placements of the zone in the order of the two nested loops, each with
\* the index of its array and its index in the array
RECURSIVE ZonePoints(_, _)
ZonePoints(zone, idx) ==
    IF idx > Len(zone) THEN <<>>
    ELSE [k \in 1..Len(zone[idx].points) |->
            [idx |-> idx - 1, index |-> k - 1, values |-> zone[idx].points[k]]]
         \o ZonePoints(zone, idx + 1)

\* the entry of luminaireList for one placement
ListEntry(p) ==
    [number |-> p.index + 1, location |-> p.values.location, spin |-> p.values.spin,
     tilt |-> -p.values.tilt, rotate |-> p.values.rotate]

\* the geometry one placement adds to luminaire3dWeb
PlacementGeometry(values, poly, web, axes, polyFlag, webFlag, axesFlag) ==
    (IF FlagSet(DefaultTrue(polyFlag))
     THEN <<transformGeometry(poly, values.spin, values.tilt, values.rotate,
                              values.location, AsScale(DefaultTrue(polyFlag)).val)>>
     ELSE <<>>)
    \o (IF FlagSet(webFlag)
        THEN [k \in 1..Len(web) |->
                transformGeometry(web[k], values.spin, values.tilt, values.rotate,
                                  values.location, AsScale(webFlag).val)]
        ELSE <<>>)
    \o (IF FlagSet(DefaultTrue(axesFlag))
        THEN [k \in 1..Len(axes) |->
                transformGeometry(axes[k], values.spin, values.tilt, values.rotate,
                                  values.location, AsScale(DefaultTrue(axesFlag)).val)]
        ELSE <<>>)

-----------------------------------------------------------------------------
(* _writeRad: createCustomLamp, createLumRadFile and the array .rad file   *)

\* a lamp entry of the custom-lamp dictionary, falsy when not set
NoEntry == [set |-> FALSE, name |-> "", x |-> 0, y |-> 0, r |-> 0, g |-> 0, b |-> 0,
            deprFactor |-> 0]

\* customLamp_ / lumArr.lamp: None, or an object whose .lamp is the dictionary
NoLamp == [given |-> FALSE, isDict |-> FALSE, whiteLamp |-> NoEntry, rgbLamp |-> NoEntry]

\* the paths below dirpath: filenameonly + zoneId + the ending
Path(zoneId, ending) == [zoneId |-> zoneId, ending |-> ending]
NoPath == Path(<<>>, "")

\* _lightLossFactor_*_candelaMultiplier_, in millionths
Multiplier(llf, cm) == llf.val * cm.val

LampText ==
    [text |-> "The input for customLamp_ should be the output from the IES Custom Lamp component",
     arg |-> "", key |-> 0]

\* createCustomLamp: the assertions on the dictionary
CustomLampErr(lamp) ==
    IF ~lamp.isDict THEN "AssertionError"
    ELSE IF ~lamp.whiteLamp.set /\ ~lamp.rgbLamp.set THEN "TypeError"
    ELSE "none"

\* the message of the exception of createCustomLamp: that of the assertion
\* of line 638
CustomLampErrText(lamp, text) == IF CustomLampErr(lamp) = "AssertionError" THEN LampText ELSE text

\* the ies2rad line: of createCustomLamp for a custom lamp, of line 678 otherwise;
\* batString is the ending of the -o name
BatchString(lamp, batString, llf, cm) ==
    IF ~lamp.given
    THEN [o |-> batString, m |-> Multiplier(llf, cm), t |-> "", f |-> NoPath, c |-> <<>>]
    ELSE IF ~lamp.isDict THEN Fail("AssertionError")
    ELSE IF lamp.whiteLamp.set
    THEN [o |-> batString, m |-> Multiplier(llf, cm), t |-> lamp.whiteLamp.name,
          f |-> Path(<<>>, ".tab"), c |-> <<>>]
    ELSE IF ~lamp.rgbLamp.set THEN Fail("TypeError")
    ELSE [o |-> batString, m |-> Multiplier(llf, cm) * lamp.rgbLamp.deprFactor,
          t |-> "default", f |-> NoPath,
          c |-> <<lamp.rgbLamp.r, lamp.rgbLamp.g, lamp.rgbLamp.b>>]

\* the .tab file createCustomLamp writes for a white lamp
TabWrites(lamp) ==
    IF lamp.given /\ lamp.whiteLamp.set
    THEN << [op |-> "write", file |-> Path(<<>>, ".tab"), exit |-> 0,
             text |-> [o |-> <<>>, m |-> lamp.whiteLamp.deprFactor,
                       t |-> lamp.whiteLamp.name, f |-> NoPath,
                       c |-> <<lamp.whiteLamp.x, lamp.whiteLamp.y>>]] >>
    ELSE <<>>

\* the exit codes a batch run can end with
ExitCodes == {0, 1}

\* createLumRadFile up to the wait: the batch file is written and closed,
\* then started
createLumRadFile(zoneId, batString) ==
    << [op |-> "write", file |-> Path(zoneId, ".bat"), exit |-> 0, text |-> batString],
       [op |-> "start", file |-> Path(zoneId, ".bat"), exit |-> 0, text |-> batString] >>

\* runbatch.wait() returns: the run of the batch file has ended; its exit
\* code is not looked at
runbatchWait(files, exit) ==
    Append(files, [files[Len(files)] EXCEPT !.op = "run", !.exit = exit])

\* the "!xform" line of one placement
XformLine(values, radPath) ==
    [spin |-> values.spin, tilt |-> values.tilt, rotate |-> values.rotate,
     location |-> values.location, radPath |-> radPath]

\* the first line of the array .rad file
RadHeader ==
    [spin |-> 0, tilt |-> 0, rotate |-> 0, location |-> <<>>, radPath |-> NoPath]

-----------------------------------------------------------------------------
(* Input files and inputs of the component                                 *)

WidthTokens == {-1000, -500, 0, 500, 1000}
LengthTokens == {0, 3, 500, 1000}
HeightTokens == {-1000, 0, 3, 10, 1000}

\* inputs that exercise the luminous dimensions
ShapeStreams ==
    {IesStream(0, "NONE", 0, 1, 1, unit, w, l, h, <<IntTok(0)>>) :
        unit \in {1, 2, 3}, w \in WidthTokens, l \in LengthTokens, h \in HeightTokens}

\* 22.5 is the smallest span that four mirror passes bring to 360
AngleTokens == {IntTok(0), DecTok(22500), IntTok(45), IntTok(90), IntTok(100),
                IntTok(180), IntTok(270), IntTok(360)}

RECURSIVE Tables(_)
Tables(n) ==
    IF n = 0 THEN {<<>>}
    ELSE Tables(n - 1) \cup
         {Append(t, a) : t \in {u \in Tables(n - 1) : Len(u) = n - 1}, a \in AngleTokens}

\* tables of the 90-270 kind whose last mirrored angle is 360 to the
\* thousandth: in doubles 270.1+(270.1-180.2) is 360.00000000000006,
\* 256.4+(256.4-152.8) is 359.99999999999994 and 270.5+(270.5-181) is 360
RoundingTables ==
    {<<DecTok(90100), DecTok(180200), DecTok(270100)>>,
     <<DecTok(76400), DecTok(152800), DecTok(256400)>>,
     <<DecTok(90500), IntTok(181), DecTok(270500)>>}

\* inputs that exercise the symmetry expansion
WebStreams ==
    {IesStream(0, "NONE", 0, 1, 1, 2, 1000, 1000, 0, t) :
        t \in (Tables(MaxTable) \ {<<>>}) \cup RoundingTables}

\* a Type C stream in metres with the candela rows given, one row per
\* horizontal angle (0, or 0 and 180) and one value per vertical angle
CandelaStream(rows) ==
    Recode(<<WordTok("TILT=NONE"), FillTok, FillTok, FillTok, IntTok(Len(rows[1])),
             IntTok(Len(rows)), IntTok(1), IntTok(2), DecTok(1000), DecTok(1000), DecTok(0),
             FillTok, FillTok, FillTok>>
           \o [v \in 1..Len(rows[1]) |-> IntTok(90 * (v - 1))]
           \o [h \in 1..Len(rows) |-> IntTok(180 * (h - 1))]
           \o [k \in 1..(Len(rows) * Len(rows[1])) |->
                 IntTok(rows[((k - 1) \div Len(rows[1])) + 1][((k - 1) % Len(rows[1])) + 1])])

CandelaTokens == {0, 50, 100}
CandelaRows == {<<a, b>> : a \in CandelaTokens, b \in CandelaTokens}

\* inputs that exercise the normalisation of the candela table
CandelaStreams ==
    {CandelaStream(<<r>>) : r \in CandelaRows}
    \cup {CandelaStream(<<r, q>>) : r \in CandelaRows, q \in CandelaRows}

\* inputs that exercise the validation of the photometry type: every type
\* with a supported and an unsupported unit, with supported and unsupported
\* luminous dimensions, and with and without horizontal angles
TypeStreams ==
    {IesStream(0, "NONE", 0, 2, phot, unit, 1000, l, 0, hz) :
        phot \in {0, 1, 2, 3}, unit \in {2, 3}, l \in {0, 1000},
        hz \in {<<>>, <<IntTok(0), IntTok(90)>>}}

Factors == {Absent, Given(0), Given(-500), Given(500), Given(1000), Given(1500)}

Place(k) == [location |-> <<k, 2 * k, 3>>, spin |-> 90 * k, tilt |-> 10 * k, rotate |-> 45]

\* one array of the zone with n placements
Array(n) == [points |-> [k \in 1..n |-> Place(k)], lamp |-> NoLamp]

\* the zones: one or two arrays of up to MaxPoints placements
Zones == {<<Array(n)>> : n \in 0..MaxPoints}
         \cup {<<Array(n), Array(m)>> : n \in 0..MaxPoints, m \in 0..MaxPoints}

DrawFlags == {FlagNone, FlagTrue, FlagFalse, FlagNum(-2)}

WhiteLamp ==
    [given |-> TRUE, isDict |-> TRUE,
     whiteLamp |-> [set |-> TRUE, name |-> "warm", x |-> 440, y |-> 403, r |-> 0, g |-> 0,
                    b |-> 0, deprFactor |-> 900],
     rgbLamp |-> NoEntry]
RgbLamp ==
    [given |-> TRUE, isDict |-> TRUE, whiteLamp |-> NoEntry,
     rgbLamp |-> [set |-> TRUE, name |-> "", x |-> 0, y |-> 0, r |-> 1000, g |-> 500,
                  b |-> 250, deprFactor |-> 800]]
\* an input that is not the output of the IES Custom Lamp component
BadLamp == [given |-> TRUE, isDict |-> FALSE, whiteLamp |-> NoEntry, rgbLamp |-> NoEntry]

\* the dictionary of the component with neither lamp set
EmptyLamp == [given |-> TRUE, isDict |-> TRUE, whiteLamp |-> NoEntry, rgbLamp |-> NoEntry]

Lamps == {NoLamp, WhiteLamp, RgbLamp, BadLamp, EmptyLamp}

\* an array with its own lamp; the placements of the second array differ
\* from those of the first
LampArray(first, n, lamp) ==
    [points |-> [k \in 1..n |-> Place(first + k)], lamp |-> lamp]

\* the zones of the runs that write the .rad files
LampZones ==
    {<<LampArray(0, n, a)>> : n \in 0..MaxPoints, a \in Lamps \ {BadLamp}}
    \cup {<<LampArray(0, n, a), LampArray(MaxPoints, m, b)>> :
             n \in 1..MaxPoints, m \in 1..MaxPoints, a \in Lamps, b \in Lamps \ {BadLamp}}

\* the folders that lack a required executable
BrokenFolders == (SUBSET {reqExe[1], reqExe[2]}) \ {{reqExe[1], reqExe[2]}}

\* the file of the runs that exercise the inputs of the component
StandardStream ==
    IesStream(0, "NONE", 0, 2, 1, 2, 1000, 1000, 0, <<IntTok(0), IntTok(180)>>)

Init ==
    /\ pc = "reqExe"
    /\ err = "none"
    /\ \/ /\ iesFile \in ParseStreams \cup SignedStreams \cup ShapeStreams \cup WebStreams
                        \cup CandelaStreams
          /\ lightLossFactor = Absent
          /\ candelaMultiplier = Absent
          /\ luminaireZone = <<Array(1)>>
          /\ drawLuminairePoly = FlagNone
          /\ drawLuminaireWeb = FlagNone
          /\ drawLuminaireAxes = FlagNone
          /\ radBin = {reqExe[1], reqExe[2]}
          /\ writeRad = FALSE
          /\ customLamp = NoLamp
       \/ /\ iesFile \in TypeStreams
          /\ lightLossFactor \in Factors
          /\ candelaMultiplier \in Factors
          /\ luminaireZone = <<Array(1)>>
          /\ drawLuminairePoly = FlagNone
          /\ drawLuminaireWeb = FlagNone
          /\ drawLuminaireAxes = FlagNone
          /\ radBin = {reqExe[1], reqExe[2]}
          /\ writeRad = TRUE
          /\ customLamp = NoLamp
       \/ /\ iesFile = StandardStream
          /\ lightLossFactor = Absent
          /\ candelaMultiplier = Absent
          /\ luminaireZone \in Zones
          /\ drawLuminairePoly \in DrawFlags
          /\ drawLuminaireWeb \in DrawFlags
          /\ drawLuminaireAxes \in DrawFlags
          /\ radBin = {reqExe[1], reqExe[2]}
          /\ writeRad = FALSE
          /\ customLamp = NoLamp
       \/ /\ iesFile = StandardStream
          /\ lightLossFactor \in {Absent, Given(500)}
          /\ candelaMultiplier = Absent
          /\ luminaireZone \in LampZones
          /\ drawLuminairePoly = FlagNone
          /\ drawLuminaireWeb = FlagNone
          /\ drawLuminaireAxes = FlagNone
          /\ radBin \in {{reqExe[1], reqExe[2]}} \cup BrokenFolders
          /\ writeRad = TRUE
          /\ customLamp \in Lamps
    /\ luminaire = NoLum
    /\ luminaireDetails = "none"
    /\ luminairePolygon = NoGeometry
    /\ horz = <<>>
    /\ candelas = <<>>
    /\ counter = 0
    /\ luminaireWeb = <<>>
    /\ luminaireAxes = <<>>
    /\ placed = 0
    /\ luminaireList = <<>>
    /\ luminaire3dWeb = <<>>
    /\ errText = NoText
    /\ disk = <<>>
    /\ radfile = <<>>
    /\ radpathfull = NoPath
    /\ radPathVal = NoPath
    /\ radIdx = 0
    /\ radIndex = 0
    /\ radFilePath = NoPath
    /\ inputs = [lightLossFactor |-> lightLossFactor, candelaMultiplier |-> candelaMultiplier]

\* for filename in reqExe: assert filename in os.listdir(radBin)
CheckReqExe ==
    /\ pc = "reqExe"
    /\ IF MissingExe(radBin) = <<>>
       THEN /\ pc' = "makeLum"
            /\ err' = err
            /\ errText' = errText
       ELSE /\ pc' = "failed"
            /\ err' = "AssertionError"
            /\ errText' = ReqExeText(radBin)
    /\ UNCHANGED <<iesFile, luminaire, luminaireDetails, lightLossFactor,
                   candelaMultiplier, luminairePolygon, horz, candelas, counter,
                   luminaireWeb, luminaireAxes, luminaireZone, drawLuminairePoly,
                   drawLuminaireWeb, drawLuminaireAxes, placed, luminaireList,
                   luminaire3dWeb, radBin, writeRad, customLamp, disk, radfile,
                   radpathfull, radPathVal, radIdx, radIndex, radFilePath, inputs>>

\* luminaire = makeLum(_iesFilePath)
MakeLum ==
    /\ pc = "makeLum"
    /\ LET r == makeLum(iesFile)
       IN  IF r.ok
           THEN /\ luminaire' = r.lum
                /\ pc' = "str"
                /\ err' = err
           ELSE /\ luminaire' = luminaire
                /\ pc' = "failed"
                /\ err' = r.err
    /\ UNCHANGED <<iesFile, luminaireDetails, lightLossFactor, candelaMultiplier,
                   luminairePolygon, horz, candelas, counter, luminaireWeb,
                   luminaireAxes, luminaireZone, drawLuminairePoly, drawLuminaireWeb,
                   drawLuminaireAxes, placed, luminaireList, luminaire3dWeb, radBin,
                   errText, writeRad, customLamp, disk, radfile, radpathfull, radPathVal,
                   radIdx, radIndex, radFilePath, inputs>>

\* luminaireDetails = str(luminaire)
StrLuminaire ==
    /\ pc = "str"
    /\ luminaire' = IF StrReachesDims(luminaire)
                    THEN [luminaire EXCEPT !.width = StrWidth(luminaire)]
                    ELSE luminaire
    /\ IF StrErr(luminaire) = "none"
       THEN /\ luminaireDetails' =
                    luminousDim(luminaire.width, luminaire.length, luminaire.height)
            /\ pc' = "checkInputs"
            /\ err' = err
       ELSE /\ luminaireDetails' = luminaireDetails
            /\ pc' = "failed"
            /\ err' = StrErr(luminaire)
    /\ errText' = StrErrText(luminaire)
    /\ UNCHANGED <<iesFile, lightLossFactor, candelaMultiplier, luminairePolygon, horz,
                   candelas, counter, luminaireWeb, luminaireAxes, luminaireZone,
                   drawLuminairePoly, drawLuminaireWeb, drawLuminaireAxes, placed,
                   luminaireList, luminaire3dWeb, radBin, writeRad, customLamp, disk,
                   radfile, radpathfull, radPathVal, radIdx, radIndex, radFilePath,
                   inputs>>

\* the photometry-type assertion and the defaults of the two factors
CheckInputs ==
    /\ pc = "checkInputs"
    /\ IF InputErr(luminaire, lightLossFactor, candelaMultiplier) = "none"
       THEN /\ lightLossFactor' = Defaulted(lightLossFactor)
            /\ candelaMultiplier' = Defaulted(candelaMultiplier)
            /\ pc' = "createLumPoly"
            /\ err' = err
       ELSE /\ lightLossFactor' =
                    IF luminaire.photType = 1 THEN Defaulted(lightLossFactor)
                    ELSE lightLossFactor
            /\ candelaMultiplier' = candelaMultiplier
            /\ pc' = "failed"
            /\ err' = InputErr(luminaire, lightLossFactor, candelaMultiplier)
    /\ errText' = InputErrText(luminaire, lightLossFactor, candelaMultiplier)
    /\ UNCHANGED <<iesFile, luminaire, luminaireDetails, luminairePolygon, horz,
                   candelas, counter, luminaireWeb, luminaireAxes, luminaireZone,
                   drawLuminairePoly, drawLuminaireWeb, drawLuminaireAxes, placed,
                   luminaireList, luminaire3dWeb, radBin, writeRad, customLamp, disk,
                   radfile, radpathfull, radPathVal, radIdx, radIndex, radFilePath,
                   inputs>>

\* luminairePolygon = createLumPoly(luminaire)
CreateLumPoly ==
    /\ pc = "createLumPoly"
    /\ IF createLumPoly(luminaire).kind = "UnboundLocalError"
       THEN /\ luminairePolygon' = luminairePolygon
            /\ pc' = "failed"
            /\ err' = "UnboundLocalError"
       ELSE /\ luminairePolygon' = createLumPoly(luminaire)
            /\ pc' = "createLumWeb"
            /\ err' = err
    /\ UNCHANGED <<iesFile, luminaire, luminaireDetails, lightLossFactor,
                   candelaMultiplier, horz, candelas, counter, luminaireWeb,
                   luminaireAxes, luminaireZone, drawLuminairePoly, drawLuminaireWeb,
                   drawLuminaireAxes, placed, luminaireList, luminaire3dWeb, radBin,
                   errText, writeRad, customLamp, disk, radfile, radpathfull, radPathVal,
                   radIdx, radIndex, radFilePath, inputs>>

\* createLumWeb up to the while loop: the locals, and the single-angle branch
CreateLumWebBegin ==
    /\ pc = "createLumWeb"
    /\ counter' = 0
    /\ IF Len(luminaire.arrHorzAng) = 1
       THEN /\ horz' = SingleAngleRange
            /\ candelas' = Repeat(luminaire.candelaValues, Len(SingleAngleRange))
            /\ pc' = "webProject"
       ELSE /\ horz' = luminaire.arrHorzAng
            /\ candelas' = luminaire.candelaValues
            /\ pc' = "webWhile"
    /\ UNCHANGED <<err, iesFile, luminaire, luminaireDetails, lightLossFactor,
                   candelaMultiplier, luminairePolygon, luminaireWeb, luminaireAxes,
                   luminaireZone, drawLuminairePoly, drawLuminaireWeb, drawLuminaireAxes,
                   placed, luminaireList, luminaire3dWeb, radBin, errText, writeRad,
                   customLamp, disk, radfile, radpathfull, radPathVal, radIdx, radIndex,
                   radFilePath, inputs>>

\* one pass of the while loop: horz and candelas are the luminaire's own
\* lists (the locals alias them), so extend() changes the luminaire too
WebMirrorPass ==
    /\ pc = "webWhile"
    /\ Len(horz) > 0
    /\ MirrorTest(horz)
    /\ counter' = counter + 1
    /\ horz' = MirrorAngles(horz)
    /\ candelas' = MirrorCandelas(candelas)
    /\ luminaire' = [luminaire EXCEPT !.arrHorzAng = MirrorAngles(horz),
                                      !.candelaValues = MirrorCandelas(candelas)]
    /\ IF TooManyPasses(counter + 1)
       THEN pc' = "failed" /\ err' = "AssertionError" /\ errText' = OrderText
       ELSE pc' = pc /\ err' = err /\ errText' = errText
    /\ UNCHANGED <<iesFile, luminaireDetails, lightLossFactor, candelaMultiplier,
                   luminairePolygon, luminaireWeb, luminaireAxes, luminaireZone,
                   drawLuminairePoly, drawLuminaireWeb, drawLuminaireAxes, placed,
                   luminaireList, luminaire3dWeb, radBin, writeRad, customLamp, disk,
                   radfile, radpathfull, radPathVal, radIdx, radIndex, radFilePath,
                   inputs>>

\* the loop test fails: the 90-270 branch
WebPartialMirror ==
    /\ pc = "webWhile"
    /\ IF Len(horz) = 0
       THEN /\ pc' = "failed"
            /\ err' = "IndexError"
            /\ UNCHANGED <<horz, candelas>>
       ELSE /\ ~MirrorTest(horz)
            /\ horz' = PartialAngles(horz)
            /\ candelas' = PartialCandelas(horz, candelas)
            /\ pc' = "webProject"
            /\ err' = err
    /\ UNCHANGED <<iesFile, luminaire, luminaireDetails, lightLossFactor,
                   candelaMultiplier, luminairePolygon, counter, luminaireWeb,
                   luminaireAxes, luminaireZone, drawLuminairePoly, drawLuminaireWeb,
                   drawLuminaireAxes, placed, luminaireList, luminaire3dWeb, radBin,
                   errText, writeRad, customLamp, disk, radfile, radpathfull, radPathVal,
                   radIdx, radIndex, radFilePath, inputs>>

\* lines 412-436: the angles go to radians, the candelas are normalised, then
\* the projection and the edge surfaces.  horz is rebound before anything
\* can fail; candelas is rebound once max() and the division have succeeded
WebProject ==
    /\ pc = "webProject"
    /\ horz' = MapRadians(horz)
    /\ candelas' = IF ProjectErr(horz, luminaire.arrVertAng, candelas)
                        \in {"ValueError", "ZeroDivisionError"}
                   THEN candelas ELSE Normalised(candelas)
    /\ IF ProjectErr(horz, luminaire.arrVertAng, candelas) = "none"
       THEN /\ luminaireWeb' = LumWeb(MapRadians(horz), MapRadians(luminaire.arrVertAng),
                                      Normalised(candelas), mul3d(luminaire))
            /\ pc' = "createLumAxes"
            /\ err' = err
       ELSE /\ luminaireWeb' = luminaireWeb
            /\ pc' = "failed"
            /\ err' = ProjectErr(horz, luminaire.arrVertAng, candelas)
    /\ UNCHANGED <<iesFile, luminaire, luminaireDetails, lightLossFactor,
                   candelaMultiplier, luminairePolygon, counter, luminaireAxes,
                   luminaireZone, drawLuminairePoly, drawLuminaireWeb, drawLuminaireAxes,
                   placed, luminaireList, luminaire3dWeb, radBin, errText, writeRad,
                   customLamp, disk, radfile, radpathfull, radPathVal, radIdx, radIndex,
                   radFilePath, inputs>>

\* luminaireAxes = createLumAxes(luminaire)
CreateLumAxes ==
    /\ pc = "createLumAxes"
    /\ luminaireAxes' = createLumAxes(luminaire)
    /\ pc' = "place"
    /\ UNCHANGED <<err, iesFile, luminaire, luminaireDetails, lightLossFactor,
                   candelaMultiplier, luminairePolygon, horz, candelas, counter,
                   luminaireWeb, luminaireZone, drawLuminairePoly, drawLuminaireWeb,
                   drawLuminaireAxes, placed, luminaireList, luminaire3dWeb, radBin,
                   errText, writeRad, customLamp, disk, radfile, radpathfull, radPathVal,
                   radIdx, radIndex, radFilePath, inputs>>

\* one pass of the body of the placement loop
PlaceLuminaire ==
    /\ pc = "place"
    /\ placed < Len(ZonePoints(luminaireZone, 1))
    /\ LET p == ZonePoints(luminaireZone, 1)[placed + 1]
       IN  /\ luminaireList' = Append(luminaireList, ListEntry(p))
           /\ luminaire3dWeb' =
                 luminaire3dWeb \o PlacementGeometry(p.values, luminairePolygon,
                                                     luminaireWeb, luminaireAxes,
                                                     drawLuminairePoly, drawLuminaireWeb,
                                                     drawLuminaireAxes)
    /\ LET v == ZonePoints(luminaireZone, 1)[placed + 1].values
       IN  /\ luminairePolygon' =
                 IF FlagSet(DefaultTrue(drawLuminairePoly))
                 THEN templateAfter(luminairePolygon, v.spin, v.tilt, v.rotate, v.location,
                                    AsScale(DefaultTrue(drawLuminairePoly)).val)
                 ELSE luminairePolygon
           /\ luminaireWeb' =
                 IF FlagSet(drawLuminaireWeb)
                 THEN [k \in 1..Len(luminaireWeb) |->
                         templateAfter(luminaireWeb[k], v.spin, v.tilt, v.rotate, v.location,
                                       AsScale(drawLuminaireWeb).val)]
                 ELSE luminaireWeb
           /\ luminaireAxes' =
                 IF FlagSet(DefaultTrue(drawLuminaireAxes))
                 THEN [k \in 1..Len(luminaireAxes) |->
                         templateAfter(luminaireAxes[k], v.spin, v.tilt, v.rotate, v.location,
                                       AsScale(DefaultTrue(drawLuminaireAxes)).val)]
                 ELSE luminaireAxes
    /\ drawLuminairePoly' = PolyFlagAfter(drawLuminairePoly)
    /\ drawLuminaireWeb' = WebFlagAfter(drawLuminaireWeb, luminaireWeb)
    /\ drawLuminaireAxes' = AxesFlagAfter(drawLuminaireAxes, luminaireAxes)
    /\ placed' = placed + 1
    /\ UNCHANGED <<pc, err, iesFile, luminaire, luminaireDetails, lightLossFactor,
                   candelaMultiplier, horz, candelas, counter, luminaireZone, radBin,
                   errText, writeRad, customLamp, disk, radfile, radpathfull, radPathVal,
                   radIdx, radIndex, radFilePath, inputs>>

\* the loop has run over every placement of every array
PlacementDone ==
    /\ pc = "place"
    /\ placed = Len(ZonePoints(luminaireZone, 1))
    /\ pc' = IF writeRad THEN "writeRad" ELSE "done"
    /\ UNCHANGED <<err, iesFile, luminaire, luminaireDetails, lightLossFactor,
                   candelaMultiplier, luminairePolygon, horz, candelas, counter,
                   luminaireWeb, luminaireAxes, luminaireZone, drawLuminairePoly,
                   drawLuminaireWeb, drawLuminaireAxes, placed, luminaireList,
                   luminaire3dWeb, radBin, errText, writeRad, customLamp, disk, radfile,
                   radpathfull, radPathVal, radIdx, radIndex, radFilePath, inputs>>

\* "if _writeRad:" up to runbatch.wait() in createLumRadFile: the shared batch
\* file is written and started
WriteRadBegin ==
    /\ pc = "writeRad"
    /\ IF CustomLampErr(customLamp) = "none" \/ ~customLamp.given
       THEN /\ disk' = disk \o TabWrites(customLamp)
                            \o createLumRadFile(<<>>,
                                   BatchString(customLamp, <<>>, lightLossFactor,
                                               candelaMultiplier))
            /\ pc' = "radWait"
            /\ err' = err
            /\ errText' = errText
       ELSE /\ pc' = "failed"
            /\ err' = CustomLampErr(customLamp)
            /\ errText' = CustomLampErrText(customLamp, errText)
            /\ disk' = disk
    /\ UNCHANGED <<iesFile, luminaire, luminaireDetails, lightLossFactor,
                   candelaMultiplier, luminairePolygon, horz, candelas, counter,
                   luminaireWeb, luminaireAxes, luminaireZone, drawLuminairePoly,
                   drawLuminaireWeb, drawLuminaireAxes, placed, luminaireList,
                   luminaire3dWeb, radBin, writeRad, customLamp, radfile, radpathfull,
                   radPathVal, radIdx, radIndex, radFilePath, inputs>>

\* the shared batch run ends: createLumRadFile returns the paths, the array
\* file is opened and gets its header
RadBatchExit ==
    /\ pc = "radWait"
    /\ \E exit \in ExitCodes : disk' = runbatchWait(disk, exit)
    /\ radpathfull' = Path(<<>>, ".rad")
    /\ radfile' = <<RadHeader>>
    /\ radIdx' = 0
    /\ pc' = "radZone"
    /\ UNCHANGED <<err, iesFile, luminaire, luminaireDetails, lightLossFactor,
                   candelaMultiplier, luminairePolygon, horz, candelas, counter,
                   luminaireWeb, luminaireAxes, luminaireZone, drawLuminairePoly,
                   drawLuminaireWeb, drawLuminaireAxes, placed, luminaireList,
                   luminaire3dWeb, radBin, errText, writeRad, customLamp, radPathVal,
                   radIndex, radFilePath, inputs>>

\* the head of one pass of "for idx,lumArr in enumerate(_luminaireZone)": a
\* zone with a lamp of its own gets its own batch file, written and started
RadZoneBegin ==
    /\ pc = "radZone"
    /\ radIdx < Len(luminaireZone)
    /\ LET lumArr == luminaireZone[radIdx + 1]
       IN  IF ~lumArr.lamp.given
           THEN /\ radPathVal' = radpathfull
                /\ radIndex' = 0
                /\ pc' = "radPoints"
                /\ UNCHANGED <<disk, err, errText>>
           ELSE IF CustomLampErr(lumArr.lamp) # "none"
           THEN /\ pc' = "failed"
                /\ err' = CustomLampErr(lumArr.lamp)
                /\ errText' = CustomLampErrText(lumArr.lamp, errText)
                /\ UNCHANGED <<disk, radPathVal, radIndex>>
           ELSE /\ disk' = disk \o TabWrites(lumArr.lamp)
                                \o createLumRadFile(<<radIdx>>,
                                       BatchString(lumArr.lamp, <<radIdx>>,
                                                   lightLossFactor, candelaMultiplier))
                /\ pc' = "zoneWait"
                /\ UNCHANGED <<err, errText, radPathVal, radIndex>>
    /\ UNCHANGED <<iesFile, luminaire, luminaireDetails, lightLossFactor,
                   candelaMultiplier, luminairePolygon, horz, candelas, counter,
                   luminaireWeb, luminaireAxes, luminaireZone, drawLuminairePoly,
                   drawLuminaireWeb, drawLuminaireAxes, placed, luminaireList,
                   luminaire3dWeb, radBin, writeRad, customLamp, radfile, radpathfull,
                   radIdx, radFilePath, inputs>>

\* the batch run of the zone ends: createLumRadFile returns the zone's path
\* and the loop over the placements starts
ZoneBatchExit ==
    /\ pc = "zoneWait"
    /\ \E exit \in ExitCodes : disk' = runbatchWait(disk, exit)
    /\ radPathVal' = Path(<<radIdx>>, ".rad")
    /\ radIndex' = 0
    /\ pc' = "radPoints"
    /\ UNCHANGED <<err, iesFile, luminaire, luminaireDetails, lightLossFactor,
                   candelaMultiplier, luminairePolygon, horz, candelas, counter,
                   luminaireWeb, luminaireAxes, luminaireZone, drawLuminairePoly,
                   drawLuminaireWeb, drawLuminaireAxes, placed, luminaireList,
                   luminaire3dWeb, radBin, errText, writeRad, customLamp, radfile,
                   radpathfull, radIdx, radFilePath, inputs>>

\* one pass of "for index,values in enumerate(lumArr.points)": the xform line
RadXform ==
    /\ pc = "radPoints"
    /\ radIndex < Len(luminaireZone[radIdx + 1].points)
    /\ radfile' = Append(radfile,
                         XformLine(luminaireZone[radIdx + 1].points[radIndex + 1], radPathVal))
    /\ radIndex' = radIndex + 1
    /\ UNCHANGED <<pc, err, iesFile, luminaire, luminaireDetails, lightLossFactor,
                   candelaMultiplier, luminairePolygon, horz, candelas, counter,
                   luminaireWeb, luminaireAxes, luminaireZone, drawLuminairePoly,
                   drawLuminaireWeb, drawLuminaireAxes, placed, luminaireList,
                   luminaire3dWeb, radBin, errText, writeRad, customLamp, disk,
                   radpathfull, radPathVal, radIdx, radFilePath, inputs>>

\* the placements of the zone are written: on to the next zone
RadZoneEnd ==
    /\ pc = "radPoints"
    /\ radIndex = Len(luminaireZone[radIdx + 1].points)
    /\ radIdx' = radIdx + 1
    /\ pc' = "radZone"
    /\ UNCHANGED <<err, iesFile, luminaire, luminaireDetails, lightLossFactor,
                   candelaMultiplier, luminairePolygon, horz, candelas, counter,
                   luminaireWeb, luminaireAxes, luminaireZone, drawLuminairePoly,
                   drawLuminaireWeb, drawLuminaireAxes, placed, luminaireList,
                   luminaire3dWeb, radBin, errText, writeRad, customLamp, disk, radfile,
                   radpathfull, radPathVal, radIndex, radFilePath, inputs>>

\* radFilePath = _luminaireID
WriteRadDone ==
    /\ pc = "radZone"
    /\ radIdx = Len(luminaireZone)
    /\ radFilePath' = Path(<<>>, "_arr.rad")
    /\ pc' = "done"
    /\ UNCHANGED <<err, iesFile, luminaire, luminaireDetails, lightLossFactor,
                   candelaMultiplier, luminairePolygon, horz, candelas, counter,
                   luminaireWeb, luminaireAxes, luminaireZone, drawLuminairePoly,
                   drawLuminaireWeb, drawLuminaireAxes, placed, luminaireList,
                   luminaire3dWeb, radBin, errText, writeRad, customLamp, disk, radfile,
                   radpathfull, radPathVal, radIdx, radIndex, inputs>>

Next ==
    \/ CheckReqExe
    \/ MakeLum
    \/ StrLuminaire
    \/ CheckInputs
    \/ CreateLumPoly
    \/ CreateLumWebBegin
    \/ WebMirrorPass
    \/ WebPartialMirror
    \/ WebProject
    \/ CreateLumAxes
    \/ PlaceLuminaire
    \/ PlacementDone
    \/ WriteRadBegin
    \/ RadBatchExit
    \/ RadZoneBegin
    \/ ZoneBatchExit
    \/ RadXform
    \/ RadZoneEnd
    \/ WriteRadDone

Spec == Init /\ [][Next]_vars

-----------------------------------------------------------------------------
(* What the claims speak about, read from the input file itself            *)

\* fileStart + 1, the index of the first token of iesData: behind the tilt
\* block, whose length is twice the number of tilt angles that were read
Cursor ==
    IF Contains(iesFile, "TILT=INCLUDE")
    THEN LET tiltStart == IndexOf(iesFile, "TILT=INCLUDE")
             tiltAng == ToInt(At0(iesFile, tiltStart + 2))
         IN  tiltStart + 2 + 2 * Len(PySlice(iesFile, tiltStart + 3, tiltStart + 3 + tiltAng))
             + 1
    ELSE IndexOf(iesFile, "TILT=NONE") + 1

\* iesData = iesFile[fileStart+1:]
FileData == PyTail(iesFile, Cursor)

\* token i exists and reads as the integer / the float x
IntAt(i, x) == i >= 0 /\ InRange0(iesFile, i) /\ CanInt(At0(iesFile, i))
               /\ ToInt(At0(iesFile, i)) = x
FloatAt(i, x) == i >= 0 /\ InRange0(iesFile, i) /\ CanFloat(At0(iesFile, i))
                 /\ ToFloat(At0(iesFile, i)) = x

\* makeLum has just returned the luminaire
Parsed == pc = "str"

\* the declared counts and the tables as the file gives them (after a successful parse)
DeclaredV == ToInt(At0(FileData, 3))
DeclaredH == ToInt(At0(FileData, 4))
FileDims == <<ToFloat(At0(FileData, 7)), ToFloat(At0(FileData, 8)),
              ToFloat(At0(FileData, 9))>>
FileHorz == MapFloat(PySlice(FileData, 13 + DeclaredV, 13 + DeclaredV + DeclaredH))
\* the row of horizontal angle h: one value per pass of range(numVertAng)
FileRow(h) ==
    [v \in 1..Max(DeclaredV, 0) |->
        ToFloat(At0(FileData,
                    currHorzPosn(h, v - 1, DeclaredV, 13 + DeclaredV + DeclaredH)))]

StrictlyAscending(s) == \A k \in 1..(Len(s) - 1) : s[k] < s[k + 1]
NonDecreasing(s) == \A k \in 1..(Len(s) - 1) : s[k] <= s[k + 1]
Last(s) == s[Len(s)]
Pow2(k) == IF k = 0 THEN 1 ELSE IF k = 1 THEN 2 ELSE IF k = 2 THEN 4
           ELSE IF k = 3 THEN 8 ELSE 16

\* createLumWeb has reached line 412: its expansion has finished without an
\* error.  A run that failed later has built the polygon and failed in the
\* projection (an IndexError of the expansion is that of horz[0] on an empty
\* list) or on a lamp
Expanded ==
    \/ pc \in {"webProject", "createLumAxes", "place", "writeRad", "radWait",
               "radZone", "zoneWait", "radPoints", "done"}
    \/ /\ pc = "failed"
       /\ luminairePolygon # NoGeometry
       /\ \/ err \in {"ValueError", "ZeroDivisionError"}
          \/ err = "IndexError" /\ Len(horz) > 0
          \/ errText = LampText
          \/ err = "TypeError"

-----------------------------------------------------------------------------
(* C1 *)

\* C1 (as claimed): whenever makeLum succeeds, the thirteen scalar fields are
\* the tokens c+0..c+12 in order, arrVertAng is the V tokens from c+13,
\* arrHorzAng the next H tokens, and candelaValues[h][v] is token
\* c+13+V+H+h*V+v.
C1_FieldLayout ==
    Parsed =>
        LET c == Cursor
            V == luminaire.numVertAng
            H == luminaire.numHorzAng
        IN  /\ IntAt(c + 0, luminaire.numLamps)
            /\ FloatAt(c + 1, luminaire.lumLamp)
            /\ FloatAt(c + 2, luminaire.candMul)
            /\ IntAt(c + 3, V)
            /\ IntAt(c + 4, H)
            /\ IntAt(c + 5, luminaire.photType)
            /\ IntAt(c + 6, luminaire.unitType)
            /\ FloatAt(c + 7, luminaire.width)
            /\ FloatAt(c + 8, luminaire.length)
            /\ FloatAt(c + 9, luminaire.height)
            /\ FloatAt(c + 10, luminaire.balFact)
            /\ FloatAt(c + 11, luminaire.future)
            /\ FloatAt(c + 12, luminaire.inpWatts)
            /\ Len(luminaire.arrVertAng) = V
            /\ \A v \in 0..(V - 1) : FloatAt(c + 13 + v, luminaire.arrVertAng[v + 1])
            /\ Len(luminaire.arrHorzAng) = H
            /\ \A h \in 0..(H - 1) : FloatAt(c + 13 + V + h, luminaire.arrHorzAng[h + 1])
            /\ Len(luminaire.candelaValues) = H
            /\ \A h \in 0..(H - 1) :
                  /\ Len(luminaire.candelaValues[h + 1]) = V
                  /\ \A v \in 0..(V - 1) :
                        FloatAt(c + 13 + V + H + h * V + v,
                                luminaire.candelaValues[h + 1][v + 1])

-----------------------------------------------------------------------------
(* C2 *)

\* C2 (as claimed): for TILT=INCLUDE at token t with declared count n, the
\* tilt angles are tokens t+3..t+2+n, the multiplier factors are the n tokens
\* right after them, t+3+n..t+2+2n, and the lamp count is token t+3+2n.
C2_TiltBlock ==
    (Parsed /\ luminaire.tiltInfo.present) =>
        LET t == IndexOf(iesFile, "TILT=INCLUDE")
            n == ToInt(At0(iesFile, t + 2))
        IN  /\ Len(luminaire.tiltInfo.tiltAngArr) = n
            /\ \A k \in 0..(n - 1) : FloatAt(t + 3 + k, luminaire.tiltInfo.tiltAngArr[k + 1])
            /\ Len(luminaire.tiltInfo.mulFact) = n
            /\ \A k \in 0..(n - 1) : FloatAt(t + 3 + n + k, luminaire.tiltInfo.mulFact[k + 1])
            /\ IntAt(t + 3 + 2 * n, luminaire.numLamps)

-----------------------------------------------------------------------------
(* C3 *)

\* C3 (as claimed): once makeLum has returned, no later operation of the
\* component changes a field of the Luminaire.
C3_RecordImmutable == [][(pc # "makeLum") => (luminaire' = luminaire)]_vars

-----------------------------------------------------------------------------
(* C4 *)

\* the four patterns of the claim, "about zero" being round(x,2) == 0
ClaimedShapes(w, l, h) ==
    (IF w > 0 /\ l > 0 /\ Round2IsZero(h) THEN {"rectangular"} ELSE {})
    \cup (IF w < 0 /\ Round2IsZero(l) /\ Round2IsZero(h) THEN {"circular"} ELSE {})
    \cup (IF w > 0 /\ l > 0 /\ h > 0 THEN {"rectangular with luminous sides"} ELSE {})
    \cup (IF Round2IsZero(w) /\ Round2IsZero(l) /\ Round2IsZero(h)
          THEN {"point source"} ELSE {})

\* __str__ has classified the luminous dimensions, or refused them
Classified == pc = "checkInputs" \/ (pc = "failed" /\ err = "Exception")

\* C4 (as claimed): __str__ reports a shape only when the triple matches that
\* shape's pattern, and a triple that matches none of the four patterns
\* raises the error.
C4_ShapeClassification ==
    Classified =>
        LET w == FileDims[1]
            l == FileDims[2]
            h == FileDims[3]
        IN  /\ (pc = "checkInputs" => luminaireDetails \in ClaimedShapes(w, l, h))
            /\ (ClaimedShapes(w, l, h) = {} => pc = "failed")

-----------------------------------------------------------------------------
(* C5 *)

\* the polygon the claim expects for the shape the summary reported; the
\* dimensions are the luminaire's, converted to metres
ClaimedPolygon(lum, shape) ==
    LET width == fileUnit(lum.unitType) * lum.width
        length == fileUnit(lum.unitType) * lum.length
        height == fileUnit(lum.unitType) * lum.height
    IN  IF shape = "rectangular"
        THEN [kind |-> "Rectangle3d",
              cornerA |-> <<-(length \div 2), -(width \div 2), 0>>,
              cornerB |-> <<length \div 2, width \div 2, 0>>]
        ELSE IF shape = "circular"
        THEN [kind |-> "Circle", radius |-> Abs(width) \div 2]
        ELSE IF shape = "rectangular with luminous sides"
        THEN [kind |-> "Box",
              xInterval |-> <<-(length \div 2), length \div 2>>,
              yInterval |-> <<-(width \div 2), width \div 2>>,
              zInterval |-> <<-(height \div 2), height \div 2>>]
        ELSE [kind |-> "Circle", radius |-> (fileUnit(lum.unitType) * 10) \div 2]

\* C5 (as claimed): for every accepted triple and both unit types createLumPoly
\* builds the shape the summary reported, and never ends without a shape.
C5_PolygonMatchesSummary ==
    /\ (pc = "createLumWeb" =>
            luminairePolygon = ClaimedPolygon(luminaire, luminaireDetails))
    /\ ~(pc = "failed" /\ err = "UnboundLocalError" /\ luminaireDetails # "none")

-----------------------------------------------------------------------------
(* C6 *)

\* the table of the file is one the claim speaks about
C6_Accepted ==
    /\ Len(FileHorz) > 1
    /\ StrictlyAscending(FileHorz)
    /\ \/ (FileHorz[1] = 0 /\ Last(FileHorz) < FullCircle * 1000)
       \/ FileHorz[1] > 0

\* the last angle of the expanded sequence is the double 360: the table
\* itself ends at 360 and nothing is appended, or the last angle appended is
\* a mirrored angle that the doubles of the code make exactly 360
C6_EndsAtFull ==
    /\ Last(horz) = FullCircle * 1000
    /\ \/ FileHorz[1] = 0
       \/ Last(FileHorz) = FullCircle * 1000
       \/ \E k \in 1..Len(FileHorz) :
              /\ Last(FileHorz) + (Last(FileHorz) - FileHorz[k]) = FullCircle * 1000
              /\ DoubleEq(MaxMirror(Last(FileHorz), FileHorz[k]), Double(FullCircle * Thousand))

C6_FullCircle ==
    /\ horz[1] = 0
    /\ C6_EndsAtFull
    /\ StrictlyAscending(horz)

\* C6 (as claimed): every ascending table of more than one angle that the
\* expansion accepts (first angle 0 and last below 360, or first angle above
\* 0) expands to a strictly increasing sequence from 0 to exactly 360.
C6_ExpansionSpansCircle ==
    (pc = "webProject" /\ C6_Accepted) => C6_FullCircle

-----------------------------------------------------------------------------
(* C7 *)

\* C7 (as claimed): no web is built from a table that is not monotonically
\* non-decreasing; createLumWeb fails on it.
C7_OutOfOrderRejected ==
    (pc \in {"createLumAxes", "place", "done"}) => NonDecreasing(FileHorz)

-----------------------------------------------------------------------------
(* C8 *)

\* the number of mirror passes that bring a table with first angle 0 to 360
C8_PassesNeeded(last) ==
    IF last >= FullCircle * 1000 THEN 0
    ELSE IF \E k \in 1..MaxPasses : last * Pow2(k) >= FullCircle * 1000
    THEN CHOOSE k \in 1..MaxPasses :
            /\ last * Pow2(k) >= FullCircle * 1000
            /\ last * Pow2(k - 1) < FullCircle * 1000
    ELSE MaxPasses + 1

\* the run is inside createLumWeb's loop or past it, on a table with first angle 0
C8_FirstZero ==
    /\ pc \in {"webWhile", "webProject"} \/ (pc = "failed" /\ errText = OrderText)
    /\ Len(FileHorz) > 1
    /\ FileHorz[1] = 0

\* C8: the mirror loop terminates for every table.  counter counts the
\* passes and a pass is never started with counter above 3, so no run makes
\* more than five; on a table with first angle 0 every pass doubles the last
\* angle; such a table that reaches 360 within four passes leaves the loop
\* without error after exactly that many passes; and one that needs a fifth
\* pass (a last angle of 0 included) ends in the data-order error, raised
\* during the fifth pass.
C8_MirrorLoopTerminates ==
    /\ counter <= MaxPasses + 1
    /\ (pc = "webWhile" => counter <= MaxPasses)
    /\ (C8_FirstZero =>
            /\ Last(luminaire.arrHorzAng) = Last(FileHorz) * Pow2(Min(counter, 4))
                                            * (IF counter > 4 THEN 2 ELSE 1)
            /\ counter <= C8_PassesNeeded(Last(FileHorz)))
    /\ ((C8_FirstZero /\ pc = "webProject") =>
            /\ C8_PassesNeeded(Last(FileHorz)) <= MaxPasses
            /\ counter = C8_PassesNeeded(Last(FileHorz))
            /\ err = "none")
    /\ ((C8_FirstZero /\ pc = "failed") =>
            /\ C8_PassesNeeded(Last(FileHorz)) = MaxPasses + 1
            /\ counter = MaxPasses + 1)

\* a table that takes all four passes, and one that the fifth pass rejects
C8_Witness ==
    /\ pc = "webProject" /\ Len(FileHorz) > 1 /\ FileHorz[1] = 0
    /\ counter = MaxPasses /\ Last(horz) = FullCircle * 1000

C8_WitnessFifthPass ==
    pc = "failed" /\ errText = OrderText /\ counter = MaxPasses + 1
    /\ Last(FileHorz) = 0

-----------------------------------------------------------------------------
(* C9 *)

\* 0, 10, ..., 360
C9_Angles == [k \in 1..37 |-> (k - 1) * 10000]

\* C9: a record with exactly one horizontal angle and one candela row expands
\* to the 37 angles 0, 10, ..., 360 and to 37 candela rows, each equal to the
\* single row of the file.
C9_SingleAngleReplicated ==
    (pc = "webProject" /\ Len(FileHorz) = 1) =>
        /\ horz = C9_Angles
        /\ Len(candelas) = 37
        /\ \A k \in 1..37 : candelas[k] = FileRow(0)

C9_Witness ==
    pc = "webProject" /\ Len(FileHorz) = 1 /\ Len(FileRow(0)) = DeclaredV /\ DeclaredV > 0

-----------------------------------------------------------------------------
(* C10 *)

\* C10 (as claimed): when fewer than 13+V+H+V*H tokens follow the TILT block
\* makeLum fails; a returned record has its angle arrays and candela table as
\* long as declared.
C10_TruncatedRejected ==
    Parsed =>
        /\ Len(iesFile) - Cursor
              >= 13 + DeclaredV + DeclaredH + DeclaredV * DeclaredH
        /\ Len(luminaire.arrVertAng) = DeclaredV
        /\ Len(luminaire.arrHorzAng) = DeclaredH
        /\ Len(luminaire.candelaValues) = DeclaredH

-----------------------------------------------------------------------------
(* C11 *)

\* the file holds neither TILT=NONE nor TILT=INCLUDE
C11_NoDirective == ~Contains(iesFile, "TILT=NONE") /\ ~Contains(iesFile, "TILT=INCLUDE")

\* C11: on a stream with neither TILT=NONE nor TILT=INCLUDE makeLum, once it
\* has run, has failed and no Luminaire exists afterwards; on a stream whose directive is TILT=NONE a
\* returned record has no tiltInfo and its thirteen scalar fields are the
\* thirteen tokens right after the TILT=NONE token.
C11_TiltDirective ==
    /\ (C11_NoDirective /\ MissingExe(radBin) = <<>> /\ pc \notin {"reqExe", "makeLum"}) =>
            (pc = "failed" /\ err = "UnboundLocalError" /\ luminaire = NoLum)
    /\ (Parsed /\ ~Contains(iesFile, "TILT=INCLUDE")) =>
            LET t == IndexOf(iesFile, "TILT=NONE")
            IN  /\ ~luminaire.tiltInfo.present
                /\ IntAt(t + 1, luminaire.numLamps)
                /\ FloatAt(t + 2, luminaire.lumLamp)
                /\ FloatAt(t + 3, luminaire.candMul)
                /\ IntAt(t + 4, luminaire.numVertAng)
                /\ IntAt(t + 5, luminaire.numHorzAng)
                /\ IntAt(t + 6, luminaire.photType)
                /\ IntAt(t + 7, luminaire.unitType)
                /\ FloatAt(t + 8, luminaire.width)
                /\ FloatAt(t + 9, luminaire.length)
                /\ FloatAt(t + 10, luminaire.height)
                /\ FloatAt(t + 11, luminaire.balFact)
                /\ FloatAt(t + 12, luminaire.future)
                /\ FloatAt(t + 13, luminaire.inpWatts)

\* a complete file whose directive names a tilt file has been refused
C11_Witness ==
    /\ pc = "failed" /\ err = "UnboundLocalError"
    /\ Contains(iesFile, "TILT=lamp.tlt")
    /\ Len(iesFile) - IndexOf(iesFile, "TILT=lamp.tlt") > 13

-----------------------------------------------------------------------------
(* C12 *)

\* C12 (as claimed): every record makeLum returns has numHorzAng candela rows
\* of numVertAng values each.
C12_TableShape ==
    Parsed =>
        /\ Len(luminaire.candelaValues) = luminaire.numHorzAng
        /\ \A h \in 1..Len(luminaire.candelaValues) :
               Len(luminaire.candelaValues[h]) = luminaire.numVertAng

-----------------------------------------------------------------------------
(* C13 *)

\* nothing has been built, written or run
C13_NothingDone ==
    /\ luminairePolygon = NoGeometry
    /\ luminaireWeb = <<>>
    /\ luminaireAxes = <<>>
    /\ luminaire3dWeb = <<>>
    /\ disk = <<>>
    /\ radfile = <<>>
    /\ radFilePath = NoPath

\* C13 (as claimed): a file whose photometry type is not 1 (Type C) never
\* gets past the validation: the run fails with no polygon, web or axes built
\* and no batch file written or run, and the error is the one about the
\* photometry type, naming the type that was found.
C13_NonCRejected ==
    (luminaire # NoLum /\ luminaire.photType # 1) =>
        /\ pc \in {"str", "checkInputs", "failed"}
        /\ C13_NothingDone
        /\ (pc = "failed" =>
               /\ err = "AssertionError"
               /\ errText.text = "The specified IES file in _iesFilePath is of Type {} photometry"
               /\ \/ luminaire.photType = 2 /\ errText.arg = "B"
                  \/ luminaire.photType = 3 /\ errText.arg = "A")

-----
(* C14 *)

\* the caller gave a light-loss factor outside [0,1] or a candela
\* multiplier that is zero or negative
C14_BadFactor ==
    \/ /\ inputs.lightLossFactor.given
       /\ ~(0 <= inputs.lightLossFactor.val /\ inputs.lightLossFactor.val <= 1000)
    \/ /\ inputs.candelaMultiplier.given
       /\ inputs.candelaMultiplier.val <= 0

\* C14 (as claimed): a run that was given such a factor never gets past the
\* validation: it fails with nothing built, written or run, and the factor
\* is never replaced by the default.
C14_FactorsValidated ==
    C14_BadFactor =>
        /\ pc \in {"reqExe", "makeLum", "str", "checkInputs", "failed"}
        /\ luminairePolygon = NoGeometry /\ luminaireWeb = <<>> /\ luminaireAxes = <<>>
        /\ disk = <<>>
        /\ candelaMultiplier = inputs.candelaMultiplier

-----------------------------------------------------------------------------
(* C15 *)

\* a batch run has ended with a non-zero exit code
C15_BatchFailed == \E k \in 1..Len(disk) : disk[k].op = "run" /\ disk[k].exit # 0

\* C15 (as claimed): with a required executable missing the run fails before
\* anything is parsed, built, written or run; and once a batch run has ended
\* with a non-zero exit code the run is a failed one: no xform line is
\* written and no radFilePath is reported.
C15_ToolFailureSurfaced ==
    /\ (MissingExe(radBin) # <<>>) =>
            /\ pc \in {"reqExe", "failed"}
            /\ luminaire = NoLum
            /\ luminaire3dWeb = <<>> /\ disk = <<>> /\ radfile = <<>>
    /\ C15_BatchFailed =>
            /\ pc = "failed"
            /\ radFilePath = NoPath

-----------------------------------------------------------------------------
(* C16 *)

\* the stages of one emitted geometry are the five of the claim, in its
\* order, with the values of the placement p
C16_Staged(g, p) ==
    /\ Len(g.transforms) = 5
    /\ g.transforms[1].op = "Scale"
    /\ \E m \in 0..2 : g.transforms[1].by = <<m, m, m>>
    /\ g.transforms[2] = [op |-> "Spin", angle |-> p.values.spin, by |-> <<0, 0, 1>>]
    /\ g.transforms[3] = [op |-> "Tilt", angle |-> p.values.tilt, by |-> <<0, 1, 0>>]
    /\ g.transforms[4] = [op |-> "Rotate", angle |-> p.values.rotate, by |-> <<0, 0, 1>>]
    /\ g.transforms[5] = [op |-> "Translation", angle |-> 0, by |-> p.values.location]

\* C16: every geometry the placement loop has emitted went through exactly
\* five stages, in the order scale, spin about Z, tilt about Y, rotate about
\* Z, translation to the location, with the angles and the location of one
\* of the placements processed so far, whatever their values.
C16_TransformOrder ==
    \A k \in 1..Len(luminaire3dWeb) :
        \E n \in 1..placed :
            C16_Staged(luminaire3dWeb[k], ZonePoints(luminaireZone, 1)[n])

\* two arrays have been placed with polygon, web and axes drawn
C16_Witness ==
    /\ pc = "done" /\ Len(luminaireZone) = 2 /\ placed > 2
    /\ Len(luminaire3dWeb) >= 4 * placed

-----------------------------------------------------------------------------
(* C17 *)

\* the templates as createLumPoly, createLumWeb and createLumAxes built them
C17_Templates ==
    {createLumPoly(luminaire)}
    \cup {LumWeb(horz, MapRadians(luminaire.arrVertAng), candelas, mul3d(luminaire))[k] :
             k \in 1..(Len(horz) - 1)}
    \cup {createLumAxes(luminaire)[k] : k \in 1..2}

\* C17: from the first placement on, the polygon, the web surfaces and the
\* axes are still the objects the three create functions built, and every
\* emitted geometry is one of these templates put through the stages with
\* the values of its own placement only: it carries no stage of another
\* placement.
C17_TemplatesUntouched ==
    (pc \in {"place", "writeRad", "radWait", "radZone", "zoneWait", "radPoints", "done"}) =>
        /\ luminairePolygon = createLumPoly(luminaire)
        /\ luminaireWeb = LumWeb(horz, MapRadians(luminaire.arrVertAng), candelas,
                                 mul3d(luminaire))
        /\ luminaireAxes = createLumAxes(luminaire)
        /\ \A k \in 1..Len(luminaire3dWeb) :
               \E n \in 1..placed, t \in C17_Templates, m \in 0..2 :
                  LET v == ZonePoints(luminaireZone, 1)[n].values
                  IN  luminaire3dWeb[k] =
                         transformGeometry(t, v.spin, v.tilt, v.rotate, v.location, m)

\* the three templates have been used for more than one placement
C17_Witness ==
    /\ pc = "place" /\ placed >= 2
    /\ \E k \in 1..Len(luminaire3dWeb) : luminaire3dWeb[k].geometry = luminairePolygon
    /\ \E k \in 1..Len(luminaire3dWeb) : luminaire3dWeb[k].geometry = luminaireWeb[1]
    /\ \E k \in 1..Len(luminaire3dWeb) : luminaire3dWeb[k].geometry = luminaireAxes[1]

-----------------------------------------------------------------------------
(* C18 *)

\* the normalised values of the web: each point keeps its candela value and
\* the maximum it was divided by
C18_Points ==
    UNION {{luminaireWeb[k].curves[c][v] : v \in 1..Len(luminaireWeb[k].curves[c])} :
             k \in 1..Len(luminaireWeb), c \in 1..2}

\* C18 (as claimed): the normalisation completes for every candela table,
\* every normalised value value/candelamax lies in [0,1] and the largest is
\* exactly 1 (so that dividing by the largest once more changes nothing).
C18_NormalizationTotal ==
    /\ ~(pc = "failed" /\ err = "ZeroDivisionError")
    /\ (pc \in {"createLumAxes", "place", "done"}) =>
            /\ \A q \in C18_Points :
                   q.candelamax > 0 /\ 0 <= q.value /\ q.value <= q.candelamax
            /\ \E q \in C18_Points : q.value = q.candelamax

-----------------------------------------------------------------------------
(* C19 *)

\* horz2 and cd2 are horz and cd mirrored once about the last angle of horz
C19_Mirrored(hz, cd, horz2, cd2) ==
    LET n == Len(hz)
        p == At0(hz, -1)
    IN  /\ Len(horz2) = 2 * n - 1
        /\ Len(cd2) = 2 * n - 1
        /\ \A i \in 0..(n - 1) : At0(horz2, i) = At0(hz, i) /\ At0(cd2, i) = At0(cd, i)
        /\ \A k \in 1..(n - 1) :
               /\ At0(horz2, n - 1 + k) = p + (p - At0(hz, n - 1 - k))
               /\ At0(cd2, n - 1 + k) = At0(cd, n - 1 - k)
        /\ StrictlyAscending(hz) =>
               \A i \in 0..(2 * n - 2) : (At0(horz2, i) = p) <=> (i = n - 1)

\* C19: a mirror pass on n angles with n candela rows leaves 2n-1 angles and
\* rows: the first n are unchanged and, for k in 1..n-1, the angle at index
\* n-1+k is p + (p - angle[n-1-k]) and the row at index n-1+k is the row at
\* index n-1-k, p being the old last angle; on ascending angles p occurs at
\* index n-1 only.
C19_MirrorPass ==
    [][(pc = "webWhile" /\ counter' = counter + 1 /\ Len(candelas) = Len(horz))
          => C19_Mirrored(horz, candelas, horz', candelas')]_vars

\* a first pass has mirrored an ascending table of three angles
C19_Witness ==
    /\ pc = "webWhile" /\ counter = 1
    /\ Len(FileHorz) = 3 /\ StrictlyAscending(FileHorz)
    /\ Len(horz) = 5 /\ Len(candelas) = 5

-----------------------------------------------------------------------------
(* C20 *)

\* the angle x of the expanded table is the file angle a or one of its
\* mirror images: about the first or the last angle in the partial mirror,
\* about the growing last angle z, 2z, 4z, ... in the mirror loop
C20_ImageOf(a, x) ==
    LET first == FileHorz[1]
        z == Last(FileHorz)
    IN  IF Len(FileHorz) = 1 THEN TRUE
        ELSE IF first > 0 THEN x \in {a, 2 * first - a, 2 * z - a}
        ELSE \E m \in 0..Pow2(MaxPasses) : x = 2 * m * z + a \/ x = 2 * m * z - a

\* row i of the expanded table is the file's row of an angle that angle i
\* is an image of
C20_Belongs(i) ==
    \E j \in 1..Len(FileHorz) :
        candelas[i] = FileRow(j - 1) /\ C20_ImageOf(FileHorz[j], horz[i])

\* C20 (as claimed): after the expansion, by whichever branch, there are as
\* many candela rows as horizontal angles and row i is the row of angle i;
\* the projection never fails on a missing row; and the web has one surface
\* per pair of adjacent angles.
C20_RowsMatchAngles ==
    /\ (pc = "webProject") =>
            /\ Len(candelas) = Len(horz)
            /\ \A i \in 1..Len(horz) : C20_Belongs(i)
    /\ ~(pc = "failed" /\ err = "IndexError" /\ luminairePolygon # NoGeometry)
    /\ (pc \in {"createLumAxes", "place", "done"}) => Len(luminaireWeb) = Len(horz) - 1


-----------------------------------------------------------------------------
(* C21 *)

\* the .rad path the lines of the zone at position i refer to: the output of
\* the zone's own batch run when the zone has a lamp, the shared one otherwise
C21_PathOf(i) ==
    IF luminaireZone[i].lamp.given THEN Path(<<i - 1>>, ".rad") ELSE Path(<<>>, ".rad")

\* the lines of the first n placements of the zone at position i
C21_ZoneLines(i, n) ==
    [k \in 1..n |->
        [spin |-> luminaireZone[i].points[k].spin,
         tilt |-> luminaireZone[i].points[k].tilt,
         rotate |-> luminaireZone[i].points[k].rotate,
         location |-> luminaireZone[i].points[k].location,
         radPath |-> C21_PathOf(i)]]

\* the lines of all placements of the first n zones, zone after zone
RECURSIVE C21_Lines(_)
C21_Lines(n) ==
    IF n = 0 THEN <<>>
    ELSE C21_Lines(n - 1) \o C21_ZoneLines(n, Len(luminaireZone[n].points))

\* the batch file that produces path p has been written in full and then run
\* to its end
C21_BatchDone(p) ==
    \E j \in 1..Len(disk) :
        /\ disk[j].op = "run"
        /\ disk[j].file = Path(p.zoneId, ".bat")
        /\ disk[j].text.o = p.zoneId
        /\ \E i \in 1..(j - 1), k \in 1..(j - 1) :
                /\ i < k
                /\ disk[i].op = "write" /\ disk[k].op = "start"
                /\ disk[i].file = disk[j].file /\ disk[k].file = disk[j].file
                /\ disk[i].text = disk[j].text /\ disk[k].text = disk[j].text

\* the array file while it is written, and once the run has ended, with
\* radFilePath set or with an exception raised in the zone loop
C21_FileContent ==
    /\ (pc = "radZone") => radfile = <<RadHeader>> \o C21_Lines(radIdx)
    /\ (pc = "radPoints") =>
            radfile = <<RadHeader>> \o C21_Lines(radIdx) \o C21_ZoneLines(radIdx + 1, radIndex)
    /\ (pc = "done" /\ writeRad) => radFilePath = Path(<<>>, "_arr.rad")
    /\ (pc \in {"done", "failed"} /\ writeRad /\ radfile # <<>>) =>
            radfile = <<RadHeader>> \o C21_Lines(Len(luminaireZone))

\* a step that writes a line appends exactly one line, and the batch run the
\* line refers to was over before the step
C21_LineStep ==
    (radfile' # radfile /\ radfile # <<>>) =>
        /\ Len(radfile') = Len(radfile) + 1
        /\ SubSeq(radfile', 1, Len(radfile)) = radfile
        /\ C21_BatchDone(radfile'[Len(radfile')].radPath)
        /\ disk' = disk

\* C21 (as claimed): with _writeRad set the array .rad file, once the run
\* has ended, holds after its header exactly one xform line per placement of
\* every zone, in zone order and then placement order, each with the
\* placement's spin, tilt, rotate and location and with the .rad path of the
\* zone's own batch run when the zone has a lamp and the shared .rad path
\* otherwise; and every line is written only after the batch file producing
\* the path it refers to has been written, started and run to its end.
C21_ArrayFile == [](C21_FileContent) /\ [][C21_LineStep]_vars

====
